---- MODULE Spec2Model ----
(***************************************************************************)
(* A model of the named-functions documentation build                      *)
(* (scripts/generate_readme.py, scripts/formula_parser.py).                *)
(*                                                                         *)
(* Formula text is a sequence of one-character strings, so that regular    *)
(* expressions, str.replace, strip and startswith are computed character   *)
(* by character, as the Python code computes them.                         *)
(***************************************************************************)
EXTENDS Integers, Sequences, FiniteSets, TLC

VARIABLES
    pc,          \* position of the operation under way
    sa_text,     \* substitute_arguments: formula_text
    sa_params,   \* substitute_arguments: parameters (names)
    sa_args,     \* substitute_arguments: arguments
    sa_result,   \* substitute_arguments: what the call returned or raised
    graph_keys,  \* detect_cycles: the keys of graph in dict (insertion) order
    graph,       \* detect_cycles: graph, node -> list of neighbours
    color,       \* detect_cycles: color
    cycles,      \* detect_cycles: cycles (each kept as its list of nodes)
    stack,       \* detect_cycles: the active calls of dfs, innermost last
    root,        \* detect_cycles: position of "for node in graph"
    formulas,    \* the catalog: formulas as load_and_validate_formulas lists them
    idx,         \* generate_formula_list: position in sorted_formulas
    expanded_cache,      \* generate_formula_list: expanded_cache
    expansion_failures,  \* generate_formula_list: expansion_failures
    parses,      \* per name, how often expand_formula parsed its body
    reentered,   \* expand_formula was entered for a name still being expanded
    outcome,     \* what the last expand_formula call of the loop returned or raised
    ex_text,     \* extract_function_calls: the formula text that is parsed
    ex_calls,    \* extract_function_calls: the list it returned
    ex_tokens,   \* the pieces the formula text was written from
    ex_parsed,   \* parse: what it returned, or that it raised ParseException
    ex_recon,    \* reconstruct_call of each returned call site, in list order
    lint_data,   \* NoTopLevelLambdaRule.check: data, the record of a YAML file
    lint_result  \* NoTopLevelLambdaRule.check: the (errors, warnings) it returned

substVars == <<sa_text, sa_params, sa_args, sa_result>>
dfsVars == <<graph_keys, graph, color, cycles, stack, root>>
buildVars == <<formulas, idx, expanded_cache, expansion_failures, parses, reentered,
               outcome>>
extractVars == <<ex_text, ex_calls, ex_tokens, ex_parsed, ex_recon>>
lintVars == <<lint_data, lint_result>>
vars == <<pc, substVars, dfsVars, buildVars, extractVars, lintVars>>

(***************************************************************************)
(* Characters.                                                             *)
(***************************************************************************)
Letters == {"a", "b", "n", "x", "y", "A", "D", "F", "G", "H", "N", "O", "R", "S"}
Digits == {"0", "1", "2"}
\* \w of a Python str pattern: letters, digits and the underscore
WordChars == Letters \cup Digits \cup {"_"}
\* the marker '__EMPTY__', kept in one cell so that no formula text equals it
EMPTY == <<"__EMPTY__">>

SeqsUpTo(S, n) == UNION {[1..k -> S] : k \in 0..n}
Range(f) == {f[i] : i \in DOMAIN f}

(***************************************************************************)
(* FormulaParser: the grammar of __init__, as a recursive-descent (PEG)    *)
(* parser over the characters. Every element skips leading whitespace, as  *)
(* pyparsing elements do. A parser operator returns [ok, pos, val]: pos is *)
(* the position after what it consumed, val the tokens it produced.        *)
(*                                                                         *)
(* An expression (a Group) is a sequence of items:                         *)
(*   [t |-> "tok", s]               a str token: name, reference, operator *)
(*   [t |-> "num", v]               a number, converted to an int          *)
(*   [t |-> "call", function, args] a function call                        *)
(*   [t |-> "paren", inner]         ('__PARENTHESIZED__', inner)           *)
(*   [t |-> "str", content]         ('__STRING_LITERAL__', content)        *)
(* and an argument is [t |-> "expr", items] or [t |-> "empty"], the marker *)
(* '__EMPTY__'.                                                            *)
(***************************************************************************)
Whitespace == {" ", "\t", "\n", "\r"}
IdentStart == Letters \cup {"_"}
IdentBody == Letters \cup Digits \cup {"_"}
CellStart == Letters \cup {"$"}
CellBody == Letters \cup Digits \cup {"$", "_"}
UnaryOperators == {"+", "-"}
BasicOperators1 == {"+", "-", "*", "/", "^", "&", "=", "<", ">"}
BasicOperators2 == {<<"<", ">">>, <<"<", "=">>, <<">", "=">>}
\* CaselessKeyword("AND"), CaselessKeyword("OR"), with the letters in upper case
KeywordOperators == {<<"A", "N", "D">>, <<"O", "R">>}
UpperOf == [a |-> "A", b |-> "B", d |-> "D", l |-> "L", m |-> "M", n |-> "N",
            x |-> "X", y |-> "Y"]
Upper(c) == IF c \in DOMAIN UpperOf THEN UpperOf[c] ELSE c

Fail == [ok |-> FALSE, pos |-> 0, val |-> <<>>]
Ok(p, v) == [ok |-> TRUE, pos |-> p, val |-> v]

TokItem(s) == [t |-> "tok", s |-> s]
NumItem(v) == [t |-> "num", v |-> v]
CallItem(f, a) == [t |-> "call", function |-> f, args |-> a]
ParenItem(e) == [t |-> "paren", inner |-> e]
StrItem(c) == [t |-> "str", content |-> c]
ExprArg(e) == [t |-> "expr", items |-> e]
EmptyArg == [t |-> "empty"]

RECURSIVE SkipWs(_, _)
SkipWs(s, i) == IF i <= Len(s) /\ s[i] \in Whitespace THEN SkipWs(s, i + 1) ELSE i

RECURSIVE RunEnd(_, _, _)
RunEnd(s, i, set) == IF i <= Len(s) /\ s[i] \in set THEN RunEnd(s, i + 1, set) ELSE i

\* str.startswith(p, i) and str.find(p, j), with positions from 1
IsAt(s, i, p) == i + Len(p) - 1 <= Len(s) /\ SubSeq(s, i, i + Len(p) - 1) = p

\* the first position from j on where p occurs in s, 0 if there is none
RECURSIVE Find(_, _, _)
Find(s, p, j) ==
    IF j + Len(p) - 1 > Len(s) THEN 0
    ELSE IF IsAt(s, j, p) THEN j ELSE Find(s, p, j + 1)

\* Word(init, body)
Word(s, i, init, body) ==
    LET j == SkipWs(s, i)
    IN IF j <= Len(s) /\ s[j] \in init
       THEN LET e == RunEnd(s, j + 1, body) IN Ok(e, SubSeq(s, j, e - 1))
       ELSE Fail

\* Literal(c)
Lit(s, i, c) ==
    LET j == SkipWs(s, i)
    IN IF j <= Len(s) /\ s[j] = c THEN Ok(j + 1, <<c>>) ELSE Fail

\* int(digits) and str(int)
DigitValue == [d \in {"0", "1", "2", "3", "4", "5", "6", "7", "8", "9"} |->
    CASE d = "0" -> 0 [] d = "1" -> 1 [] d = "2" -> 2 [] d = "3" -> 3 [] d = "4" -> 4
      [] d = "5" -> 5 [] d = "6" -> 6 [] d = "7" -> 7 [] d = "8" -> 8 [] d = "9" -> 9]
DigitChar == <<"0", "1", "2", "3", "4", "5", "6", "7", "8", "9">>

RECURSIVE IntOf(_, _)
IntOf(ds, acc) == IF ds = <<>> THEN acc ELSE IntOf(Tail(ds), 10 * acc + DigitValue[Head(ds)])

RECURSIVE StrOfInt(_)
StrOfInt(v) == IF v < 10 THEN <<DigitChar[v + 1]>>
               ELSE StrOfInt(v \div 10) \o <<DigitChar[(v % 10) + 1]>>

\* pyparsing_common.number, for texts without '.', 'e' and 'E': the digits.
\* (A sign never reaches it: ZeroOrMore(unary_operators) has taken it.)
Number(s, i) ==
    LET j == SkipWs(s, i)
        e == RunEnd(s, j, Digits)
    IN IF e > j THEN Ok(e, <<NumItem(IntOf(SubSeq(s, j, e - 1), 0))>>) ELSE Fail

\* operators = and_op | or_op | basic_operators
KeywordAt(s, j, kw) ==
    /\ j + Len(kw) - 1 <= Len(s)
    /\ \A k \in 1..Len(kw) : Upper(s[j + k - 1]) = kw[k]
    /\ ~(j + Len(kw) <= Len(s) /\ s[j + Len(kw)] \in CellBody)

Operator(s, i) ==
    LET j == SkipWs(s, i)
    IN IF \E kw \in KeywordOperators : KeywordAt(s, j, kw)
       THEN LET kw == CHOOSE k \in KeywordOperators : KeywordAt(s, j, k)
            IN Ok(j + Len(kw), <<TokItem(kw)>>)
       ELSE IF j + 1 <= Len(s) /\ SubSeq(s, j, j + 1) \in BasicOperators2
       THEN Ok(j + 2, <<TokItem(SubSeq(s, j, j + 1))>>)
       ELSE IF j <= Len(s) /\ s[j] \in BasicOperators1
       THEN Ok(j + 1, <<TokItem(<<s[j]>>)>>)
       ELSE Fail

\* ZeroOrMore(unary_operators): [pos, val]
RECURSIVE UnaryOps(_, _)
UnaryOps(s, i) ==
    LET j == SkipWs(s, i)
    IN IF j <= Len(s) /\ s[j] \in UnaryOperators
       THEN LET rest == UnaryOps(s, j + 1)
            IN [pos |-> rest.pos, val |-> <<TokItem(<<s[j]>>)>> \o rest.val]
       ELSE [pos |-> i, val |-> <<>>]

\* Regex(r'"(?:[^"]|"")*"') and its single-quoted twin, from the opening
\* quote at j - 1: the position of the closing quote, 0 when nothing matches.
\* The repetition is greedy: a doubled quote is taken as content when the rest
\* still matches, and as the closing quote followed by other text when not.
RECURSIVE QuotedEnd(_, _, _)
QuotedEnd(s, j, q) ==
    IF j > Len(s) THEN 0
    ELSE IF s[j] # q THEN QuotedEnd(s, j + 1, q)
    ELSE IF j + 1 <= Len(s) /\ s[j + 1] = q
    THEN LET Then(e) == IF e # 0 THEN e ELSE j
         IN Then(QuotedEnd(s, j + 2, q))
    ELSE j

\* content.replace('""', '"'), content.replace("''", "'")
RECURSIVE Undouble(_, _)
Undouble(content, q) ==
    IF content = <<>> THEN <<>>
    ELSE IF Len(content) >= 2 /\ content[1] = q /\ content[2] = q
    THEN <<q>> \o Undouble(SubSeq(content, 3, Len(content)), q)
    ELSE <<Head(content)>> \o Undouble(Tail(content), q)

\* process_string_literal
ProcessStringLiteral(raw) == StrItem(Undouble(SubSeq(raw, 2, Len(raw) - 1), raw[1]))

Quotes == {"\"", "'"}

\* string_literal = (double_quoted | single_quoted), with its parse action
StringLiteral(s, i) ==
    LET j == SkipWs(s, i)
    IN IF j <= Len(s) /\ s[j] \in Quotes
       THEN LET e == QuotedEnd(s, j + 1, s[j])
            IN IF e # 0 THEN Ok(e + 1, <<ProcessStringLiteral(SubSeq(s, j, e))>>) ELSE Fail
       ELSE Fail

\* array_literal = Regex(r"\{[^}]*[^,;\s}][^}]*\}"): from "{" to the first "}",
\* with a character between them that is no delimiter and no blank; the
\* token is the text as written
ArrayDelimiters == {",", ";"}

ArrayLiteral(s, i) ==
    LET j == SkipWs(s, i)
        e == Find(s, <<"}">>, j + 1)
    IN IF /\ j <= Len(s) /\ s[j] = "{"
          /\ e # 0
          /\ \E k \in (j + 1)..(e - 1) : s[k] \notin ArrayDelimiters \cup Whitespace
       THEN Ok(e + 1, <<TokItem(SubSeq(s, j, e))>>)
       ELSE Fail

\* empty_arg = FollowedBy(comma | rparen)
FollowedByCommaOrRparen(s, i) ==
    LET j == SkipWs(s, i) IN j <= Len(s) /\ s[j] \in {",", ")"}

NoFix(args) == args

\* fix_function_call: a single empty argument means no argument
FixFunctionCall(args) ==
    IF Len(args) = 1 /\ args[1].t = "empty" THEN <<>> ELSE args

RECURSIVE Expression(_, _), UnaryTerm(_, _), OpTerms(_, _), Term(_, _),
          ParenthesizedExpr(_, _), FunctionCall(_, _), Argument(_, _), MoreArgs(_, _)

\* In the operators below a sub-parser's result is handed to a local operator
\* (LET Then(r) == ... IN Then(SubParser(s, i))), which reads its fields.

\* argument = expression | empty_arg
Argument(s, i) ==
    LET Then(e) ==
            IF e.ok THEN Ok(e.pos, ExprArg(e.val))
            ELSE IF FollowedByCommaOrRparen(s, i) THEN Ok(i, EmptyArg)
            ELSE Fail
    IN Then(Expression(s, i))

\* ZeroOrMore(comma + argument) of DelimitedList(argument): [pos, val]
MoreArgs(s, i) ==
    LET c == Lit(s, i, ",")
        Then(a) ==
            IF c.ok /\ a.ok
            THEN LET rest == MoreArgs(s, a.pos)
                 IN [pos |-> rest.pos, val |-> <<a.val>> \o rest.val]
            ELSE [pos |-> i, val |-> <<>>]
    IN Then(Argument(s, c.pos))

\* function_call = Group(identifier + "(" + Group(Optional(DelimitedList(argument))) + ")")
FunctionCall(s, i) ==
    LET id == Word(s, i, IdentStart, IdentBody)
        lp == Lit(s, id.pos, "(")
        Close(args) ==
            LET rp == Lit(s, args.pos, ")")
            IN IF rp.ok
               THEN Ok(rp.pos, <<CallItem(id.val, FixFunctionCall(args.val))>>)
               ELSE Fail
        More(first, more) ==
            Close(IF first.ok
                  THEN [pos |-> more.pos, val |-> <<first.val>> \o more.val]
                  ELSE [pos |-> lp.pos, val |-> <<>>])
        Then(first) == More(first, MoreArgs(s, first.pos))
    IN IF id.ok /\ lp.ok THEN Then(Argument(s, lp.pos)) ELSE Fail

\* parenthesized_expr = "(" + expression + ")", marked
ParenthesizedExpr(s, i) ==
    LET lp == Lit(s, i, "(")
        Then(e) ==
            LET rp == Lit(s, e.pos, ")")
            IN IF e.ok /\ rp.ok THEN Ok(rp.pos, <<ParenItem(e.val)>>) ELSE Fail
    IN IF lp.ok THEN Then(Expression(s, lp.pos)) ELSE Fail

\* term = parenthesized_expr | function_call | string_literal | array_literal
\*      | range_ref | number | cell_ref | identifier
\* (the texts of this model hold no colon, which the range alternative needs)
Term(s, i) ==
    LET str == StringLiteral(s, i)
        arr == ArrayLiteral(s, i)
        num == Number(s, i)
        cell == Word(s, i, CellStart, CellBody)
        id == Word(s, i, IdentStart, IdentBody)
        Else(call) ==
            IF call.ok THEN call
            ELSE IF str.ok THEN str
            ELSE IF arr.ok THEN arr
            ELSE IF num.ok THEN num
            ELSE IF cell.ok THEN Ok(cell.pos, <<TokItem(cell.val)>>)
            ELSE IF id.ok THEN Ok(id.pos, <<TokItem(id.val)>>)
            ELSE Fail
        Then(par) == IF par.ok THEN par ELSE Else(FunctionCall(s, i))
    IN Then(ParenthesizedExpr(s, i))

\* unary_term = ZeroOrMore(unary_operators) + term
UnaryTerm(s, i) ==
    LET u == UnaryOps(s, i)
        Then(t) == IF t.ok THEN Ok(t.pos, u.val \o t.val) ELSE Fail
    IN Then(Term(s, u.pos))

\* ZeroOrMore(operators + unary_term): [pos, val]
OpTerms(s, i) ==
    LET op == Operator(s, i)
        Then(ut) ==
            IF ut.ok
            THEN LET rest == OpTerms(s, ut.pos)
                 IN [pos |-> rest.pos, val |-> op.val \o ut.val \o rest.val]
            ELSE [pos |-> i, val |-> <<>>]
    IN IF op.ok THEN Then(UnaryTerm(s, op.pos)) ELSE [pos |-> i, val |-> <<>>]

\* expression = Group(unary_term + ZeroOrMore(operators + unary_term));
\* val is the content of the group
Expression(s, i) ==
    LET Rest(first, rest) == Ok(rest.pos, first.val \o rest.val)
        Then(first) == IF first.ok THEN Rest(first, OpTerms(s, first.pos)) ELSE Fail
    IN Then(UnaryTerm(s, i))

\* str.lstrip('='), str.strip()
RECURSIVE LStripEq(_)
LStripEq(s) == IF s # <<>> /\ Head(s) = "=" THEN LStripEq(Tail(s)) ELSE s

RECURSIVE LStrip(_)
LStrip(s) == IF s # <<>> /\ Head(s) \in Whitespace THEN LStrip(Tail(s)) ELSE s

RECURSIVE RStrip(_)
RStrip(s) == IF s # <<>> /\ s[Len(s)] \in Whitespace
             THEN RStrip(SubSeq(s, 1, Len(s) - 1)) ELSE s

Strip(s) == RStrip(LStrip(s))

ParsePrefix(formula) ==
    LET Then(e) ==
            IF e.ok THEN [ok |-> TRUE, ast |-> e.val] ELSE [ok |-> FALSE, ast |-> <<>>]
    IN Then(Expression(Strip(LStripEq(formula)), 1))

\* FormulaParser.parse: [ok, ast]; ok = FALSE stands for ParseException
Parse(formula) ==
    LET normalized == Strip(LStripEq(formula))
        Then(e) ==
            IF e.ok /\ SkipWs(normalized, e.pos) > Len(normalized)
            THEN [ok |-> TRUE, ast |-> e.val]
            ELSE [ok |-> FALSE, ast |-> <<>>]
    IN Then(Expression(normalized, 1))

(***************************************************************************)
(* FormulaParser.extract_function_calls                                    *)
(***************************************************************************)
CallSite(name, args, depth) == [name |-> name, args |-> args, depth |-> depth]

\* walk: the call sites in the order walk appends them
RECURSIVE WalkItems(_, _, _), WalkItem(_, _, _), WalkArgs(_, _, _)
WalkItemNamedOnly(item, named_functions, depth) ==
    IF item.t = "call"
    THEN IF item.function \in named_functions
         THEN <<CallSite(item.function, item.args, depth)>>
                  \o WalkArgs(item.args, named_functions, depth + 1)
         ELSE <<>>
    ELSE IF item.t = "paren"
    THEN WalkItems(item.inner, named_functions, depth)
    ELSE <<>>

WalkItem(item, named_functions, depth) ==
    IF item.t = "call"
    THEN (IF item.function \in named_functions
          THEN <<CallSite(item.function, item.args, depth)>>
          ELSE <<>>) \o WalkArgs(item.args, named_functions, depth + 1)
    ELSE IF item.t = "paren"
    THEN WalkItems(item.inner, named_functions, depth)
    ELSE <<>>

WalkItems(items, named_functions, depth) ==
    IF items = <<>> THEN <<>>
    ELSE WalkItem(Head(items), named_functions, depth)
             \o WalkItems(Tail(items), named_functions, depth)

WalkArgs(args, named_functions, depth) ==
    IF args = <<>> THEN <<>>
    ELSE (IF Head(args).t = "expr"
          THEN WalkItems(Head(args).items, named_functions, depth)
          ELSE <<>>) \o WalkArgs(Tail(args), named_functions, depth)

\* sorted(calls, key=lambda c: c["depth"], reverse=True): a stable sort, so
\* call sites of equal depth keep the order walk found them in
ComesBeforeAscending(c, d) == c.depth <= d.depth
ComesBefore(c, d) == c.depth >= d.depth

RECURSIVE InsertSorted(_, _)
InsertSorted(sorted, c) ==
    IF sorted = <<>> THEN <<c>>
    ELSE IF ComesBefore(Head(sorted), c)
    THEN <<Head(sorted)>> \o InsertSorted(Tail(sorted), c)
    ELSE <<c>> \o sorted

RECURSIVE SortCalls(_, _)
SortCalls(calls, sorted) ==
    IF calls = <<>> THEN sorted
    ELSE SortCalls(Tail(calls), InsertSorted(sorted, Head(calls)))

ExtractFunctionCalls(ast, named_functions) ==
    SortCalls(WalkItems(ast, named_functions, 0), <<>>)

(***************************************************************************)
(* FormulaParser.reconstruct_call                                          *)
(***************************************************************************)
RECURSIVE JoinWith(_, _)
JoinWith(parts, sep) ==
    IF parts = <<>> THEN <<>>
    ELSE IF Len(parts) = 1 THEN parts[1]
    ELSE parts[1] \o sep \o JoinWith(Tail(parts), sep)

\* the inner while loop of stringify: from j with the given depth, the
\* position after the item that closes the "(" item, and the depth left
RECURSIVE FindClose(_, _, _)
FindClose(items, j, depth) ==
    IF j <= Len(items) /\ depth > 0
    THEN FindClose(items, j + 1,
             IF items[j] = <<"(">> THEN depth + 1
             ELSE IF items[j] = <<")">> THEN depth - 1 ELSE depth)
    ELSE [j |-> j, depth |-> depth]

\* the outer while loop of stringify: items "(" ... ")" are joined to "(...)"
RECURSIVE CollapseParens(_, _)
CollapseParens(items, i) ==
    IF i > Len(items) THEN <<>>
    ELSE LET close == FindClose(items, i + 1, 1)
         IN IF i < Len(items) - 1 /\ items[i] = <<"(">> /\ close.depth = 0
            THEN <<<<"(">> \o JoinWith(SubSeq(items, i + 1, close.j - 2), <<" ">>) \o <<")">>>>
                     \o CollapseParens(items, close.j)
            ELSE <<items[i]>> \o CollapseParens(items, i + 1)

RECURSIVE ReconstructCall(_, _), Stringify(_), StringifyItem(_), StringifyAll(_),
          StringifyArgs(_), JoinArgs(_, _), JoinArgsSpaced(_, _)

\* stringify of one item of an expression
StringifyItem(item) ==
    CASE item.t = "paren" -> <<"(">> \o Stringify(item.inner) \o <<")">>
      [] item.t = "str" -> <<"\"">> \o item.content \o <<"\"">>
      [] item.t = "tok" -> item.s
      [] item.t = "num" -> StrOfInt(item.v)
      [] item.t = "call" -> ReconstructCall(item.function, item.args)

StringifyAll(items) ==
    IF items = <<>> THEN <<>>
    ELSE <<StringifyItem(Head(items))>> \o StringifyAll(Tail(items))

\* stringify of a list
Stringify(items) == JoinWith(CollapseParens(StringifyAll(items), 1), <<" ">>)

StringifyArgs(args) ==
    IF args = <<>> THEN <<>>
    ELSE <<IF Head(args).t = "empty" THEN <<>> ELSE Stringify(Head(args).items)>>
             \o StringifyArgs(Tail(args))

JoinArgsSpaced(strs, i) ==
    IF i > Len(strs) THEN <<>>
    ELSE (IF i > 1 THEN <<",", " ">> ELSE <<>>) \o strs[i] \o JoinArgsSpaced(strs, i + 1)

\* ", " before a non-empty argument, "," before an empty one
JoinArgs(strs, i) ==
    IF i > Len(strs) THEN <<>>
    ELSE (IF i > 1 THEN (IF strs[i] # <<>> THEN <<",", " ">> ELSE <<",">>) ELSE <<>>)
             \o strs[i] \o JoinArgs(strs, i + 1)

ReconstructCall(func_name, args) ==
    func_name \o <<"(">> \o JoinArgs(StringifyArgs(args), 1) \o <<")">>

(***************************************************************************)
(* re.sub(r'\b' + re.escape(param_name) + r'\b', arg_str, result)          *)
(***************************************************************************)
IsWordAt(s, i) == i >= 1 /\ i <= Len(s) /\ s[i] \in WordChars

\* \b holds in front of character i when exactly one side is a word character
WordBoundary(s, i) == IsWordAt(s, i - 1) # IsWordAt(s, i)

MatchAt(s, p, i) ==
    /\ i + Len(p) - 1 <= Len(s)
    /\ SubSeq(s, i, i + Len(p) - 1) = p
    /\ WordBoundary(s, i)
    /\ WordBoundary(s, i + Len(p))

\* the replacement template of re.sub: backslash escapes are processed
\* before any match is looked for; a bad escape raises re.error
TemplateEscapes == [n |-> "\n", t |-> "\t", r |-> "\r", f |-> "\f"]

RECURSIVE ParseTemplate(_, _)
ParseTemplate(a, i) ==
    IF i > Len(a) THEN [ok |-> TRUE, text |-> <<>>]
    ELSE IF a[i] # "\\"
    THEN LET rest == ParseTemplate(a, i + 1)
         IN [ok |-> rest.ok, text |-> <<a[i]>> \o rest.text]
    ELSE IF i = Len(a) THEN [ok |-> FALSE, text |-> <<>>]   \* bad escape (end of pattern)
    ELSE LET c == a[i + 1]
             rest == ParseTemplate(a, i + 2)
         IN IF c = "\\"
            THEN [ok |-> rest.ok, text |-> <<"\\">> \o rest.text]
            ELSE IF c \in DOMAIN TemplateEscapes
            THEN [ok |-> rest.ok, text |-> <<TemplateEscapes[c]>> \o rest.text]
            ELSE IF c \in Letters \cup (Digits \ {"0"})
            THEN [ok |-> FALSE, text |-> <<>>]   \* bad escape, invalid group reference
            ELSE [ok |-> rest.ok, text |-> <<"\\", c>> \o rest.text]

RECURSIVE ReSubFrom(_, _, _, _)
ReSubFrom(s, p, repl, i) ==
    IF i > Len(s) THEN <<>>
    ELSE IF MatchAt(s, p, i) THEN repl \o ReSubFrom(s, p, repl, i + Len(p))
    ELSE <<s[i]>> \o ReSubFrom(s, p, repl, i + 1)

\* re.sub: [ok, text]; ok = FALSE stands for re.error
ReSub(p, arg_str, s) ==
    LET t == ParseTemplate(arg_str, 1)
    IN IF t.ok THEN [ok |-> TRUE, text |-> ReSubFrom(s, p, t.text, 1)]
       ELSE [ok |-> FALSE, text |-> <<>>]

(***************************************************************************)
(* substitute_arguments                                                    *)
(***************************************************************************)
Returned(t) == [ok |-> TRUE, text |-> t, err |-> "", expected |-> 0, got |-> 0]
Raised(e, m, n) == [ok |-> FALSE, text |-> <<>>, err |-> e, expected |-> m, got |-> n]

\* An argument is a Python str, [k |-> "str", s], or a list of parsed items,
\* [k |-> "list", items].
StrArg(s) == [k |-> "str", s |-> s]
ListArg(items) == [k |-> "list", items |-> items]

\* str(list), str(ParseResults): the Python repr of a list, which is no
\* formula text; kept in one cell, its content left out
ReprOfList == <<"[...]">>

\* stringify_item (lines 534-556)
SubstStringifyItem(item) ==
    CASE item.t = "paren" -> <<"(">> \o ReprOfList \o <<")">>
      [] item.t = "str" -> <<"\"">> \o item.content \o <<"\"">>
      [] item.t = "tok" -> item.s
      [] item.t = "num" -> StrOfInt(item.v)
      [] item.t = "call" -> ReconstructCall(item.function, item.args)

RECURSIVE SubstStringifyAll(_)
SubstStringifyAll(items) ==
    IF items = <<>> THEN <<>>
    ELSE <<SubstStringifyItem(Head(items))>> \o SubstStringifyAll(Tail(items))

\* lines 519-573: the argument as a string
ArgStr(arg) ==
    IF arg.k = "str"
    THEN (IF arg.s = EMPTY THEN <<>> ELSE arg.s)
    ELSE JoinWith(SubstStringifyAll(arg.items), <<" ">>)

RECURSIVE SubstituteFrom(_, _, _, _)
SubstituteFrom(result, parameters, arguments, k) ==
    IF k > Len(parameters) THEN Returned(result)
    ELSE LET r == ReSub(parameters[k], ArgStr(arguments[k]), result)
         IN IF r.ok THEN SubstituteFrom(r.text, parameters, arguments, k + 1)
            ELSE Raised("re.error", 0, 0)

\* zip(parameters, arguments) without the count check of lines 507-511
SubstituteUnchecked(formula_text, parameters, arguments) ==
    LET n == IF Len(parameters) < Len(arguments) THEN Len(parameters) ELSE Len(arguments)
    IN SubstituteFrom(formula_text, SubSeq(parameters, 1, n), SubSeq(arguments, 1, n), 1)

SubstituteArguments(formula_text, parameters, arguments) ==
    IF Len(parameters) # Len(arguments)
    THEN Raised("ValueError", Len(parameters), Len(arguments))
    ELSE SubstituteFrom(formula_text, parameters, arguments, 1)

(***************************************************************************)
(* substitute_arguments applied to bounded inputs                          *)
(***************************************************************************)
MaxBodyLen == 4
MaxArgs == 2
SubstAlphabet == {"a", "b", "+", "\""}
SubstBodies == SeqsUpTo(SubstAlphabet, MaxBodyLen)
SubstParams == {<<>>, <<<<"a">>>>, <<<<"a">>, <<"b">>>>, <<<<"b">>, <<"a">>>>}
SubstArgTexts == {StrArg(<<"b">>), StrArg(<<"1">>), StrArg(<<"\\", "n">>), StrArg(EMPTY)}
SubstArgs == SeqsUpTo(SubstArgTexts, MaxArgs)

NoResult == Raised("none", 0, 0)

SubstIdle ==
    /\ sa_text = <<>>
    /\ sa_params = <<>>
    /\ sa_args = <<>>
    /\ sa_result = NoResult

DfsIdle ==
    /\ graph_keys = <<>>
    /\ graph = <<>>
    /\ color = <<>>
    /\ cycles = <<>>
    /\ stack = <<>>
    /\ root = 1

BuildIdle ==
    /\ formulas = <<>>
    /\ idx = 1
    /\ expanded_cache = <<>>
    /\ expansion_failures = <<>>
    /\ parses = <<>>
    /\ reentered = FALSE
    /\ outcome = NoResult

NotParsed == [ok |-> FALSE, ast |-> <<>>]

ExtractIdle ==
    /\ ex_text = <<>>
    /\ ex_calls = <<>>
    /\ ex_tokens = <<>>
    /\ ex_parsed = NotParsed
    /\ ex_recon = <<>>

\* data without a formula field
NoLintData == [kind |-> "missing", formula |-> <<>>]
NoMessages == [errors |-> <<>>, warnings |-> <<>>]

LintIdle ==
    /\ lint_data = NoLintData
    /\ lint_result = NoMessages

InitSubst ==
    /\ pc = "subst"
    /\ LintIdle
    /\ DfsIdle
    /\ BuildIdle
    /\ ExtractIdle
    /\ sa_text \in SubstBodies
    /\ sa_params \in SubstParams
    /\ sa_args \in SubstArgs
    /\ sa_result = NoResult

CallSubstitute ==
    /\ pc = "subst"
    /\ sa_result' = SubstituteArguments(sa_text, sa_params, sa_args)
    /\ pc' = "subst_done"
    /\ UNCHANGED <<sa_text, sa_params, sa_args, dfsVars, buildVars, extractVars, lintVars>>

NextSubst == CallSubstitute

SpecSubst == InitSubst /\ [][NextSubst]_vars

\* The substitution sections 4.4 and 8 describe, defined on tokens and not
\* by a regular expression: the text is cut into maximal runs of identifier
\* characters, and a run that is the name of parameter k becomes argument k,
\* all parameters at once.
RECURSIVE TokenEnd(_, _)
TokenEnd(s, i) == IF IsWordAt(s, i) THEN TokenEnd(s, i + 1) ELSE i

ParamIndex(parameters, tok) ==
    CHOOSE k \in 1..Len(parameters) :
        parameters[k] = tok /\ \A j \in 1..(k - 1) : parameters[j] # tok

RECURSIVE WholeTokenSubst(_, _, _, _)
WholeTokenSubst(s, parameters, arguments, i) ==
    IF i > Len(s) THEN <<>>
    ELSE IF IsWordAt(s, i)
    THEN LET e == TokenEnd(s, i)
             tok == SubSeq(s, i, e - 1)
         IN (IF tok \in Range(parameters)
             THEN ArgStr(arguments[ParamIndex(parameters, tok)])
             ELSE tok) \o WholeTokenSubst(s, parameters, arguments, e)
    ELSE <<s[i]>> \o WholeTokenSubst(s, parameters, arguments, i + 1)

HasBackslash(args) == \E k \in DOMAIN args : "\\" \in Range(args[k].s)

\* C7: with one parameter p and argument a, every occurrence of p that is a
\* whole token is replaced by a and no occurrence inside a longer identifier
\* is changed, for every body, p and a.
C7_WholeToken ==
    (pc = "subst_done" /\ Len(sa_params) = 1 /\ Len(sa_args) = 1)
        => sa_result = Returned(WholeTokenSubst(sa_text, sa_params, sa_args, 1))

\* The same statement for the argument texts that hold no backslash.
WholeTokenWithoutBackslash ==
    (pc = "subst_done" /\ Len(sa_params) = 1 /\ Len(sa_args) = 1
        /\ ~HasBackslash(sa_args))
        => sa_result = Returned(WholeTokenSubst(sa_text, sa_params, sa_args, 1))

WholeTokenReached ==
    /\ pc = "subst_done"
    /\ sa_params = <<<<"a">>>>
    /\ sa_args = <<StrArg(<<"1">>)>>
    /\ sa_text = <<"a", "+", "a", "b">>
    /\ sa_result = Returned(<<"1", "+", "a", "b">>)

\* C8: the substitution is simultaneous: the result is the body with each
\* whole-token occurrence of parameter i in the original body replaced by
\* argument i, and inserted text is never replaced again (here for the
\* arguments without a backslash, so that only the order of the passes is
\* in question).
C8_Simultaneous ==
    (pc = "subst_done" /\ Len(sa_params) = Len(sa_args) /\ ~HasBackslash(sa_args))
        => sa_result = Returned(WholeTokenSubst(sa_text, sa_params, sa_args, 1))

\* the string literals of a text, in order: each runs from a " to the next "
RECURSIVE Literals(_, _)
Literals(text, i) ==
    LET open == Find(text, <<"\"">>, i)
        close == IF open = 0 THEN 0 ELSE Find(text, <<"\"">>, open + 1)
    IN IF close = 0 THEN <<>>
       ELSE <<SubSeq(text, open, close)>> \o Literals(text, close + 1)

\* C29: substitute_arguments never changes the content of a string literal
\* of the body: a parameter name that stands as a word inside a quoted
\* string is left as written, only occurrences outside literals are replaced.
C29_LiteralsUnchanged ==
    (pc = "subst_done" /\ sa_result.ok)
        => Literals(sa_result.text, 1) = Literals(sa_text, 1)

\* The literals that hold no parameter name as a word come out unchanged.
LiteralsWithoutParameterUnchanged ==
    (pc = "subst_done" /\ sa_result.ok
        /\ \A k \in DOMAIN Literals(sa_text, 1) : \A p \in Range(sa_params) :
               \A i \in 1..Len(Literals(sa_text, 1)[k]) :
                   ~MatchAt(Literals(sa_text, 1)[k], p, i))
        => Literals(sa_result.text, 1) = Literals(sa_text, 1)

(***************************************************************************)
(* detect_cycles: depth-first search with colour marking, one step of the  *)
(* search per action                                                       *)
(***************************************************************************)
WHITE == 0
GRAY == 1
BLACK == 2

Names == {<<"F">>, <<"G">>, <<"H">>}

IndexOfRoot(path, n) == 1

\* path.index(neighbor): the first position of neighbor on path
Index(path, n) == CHOOSE i \in 1..Len(path) :
    path[i] = n /\ \A j \in 1..(i - 1) : path[j] # n

Top == stack[Len(stack)]
Pop(s) == SubSeq(s, 1, Len(s) - 1)

\* the colour dfs gives a node on entry (line 470)
EnterColorVisited == BLACK
EnterColor == GRAY

\* the colour test of line 474: the neighbour is on the path being explored
IsBackEdge(c) == c = GRAY

\* for node in graph: if color[node] == WHITE: dfs(node, [])
DfsRootEnter ==
    /\ pc = "dfs"
    /\ stack = <<>>
    /\ root <= Len(graph_keys)
    /\ color[graph_keys[root]] = WHITE
    /\ color' = [color EXCEPT ![graph_keys[root]] = EnterColor]
    /\ stack' = <<[node |-> graph_keys[root], path |-> <<graph_keys[root]>>, i |-> 1]>>
    /\ root' = root + 1
    /\ UNCHANGED <<pc, graph_keys, graph, cycles, substVars, buildVars, extractVars, lintVars>>

DfsRootSkip ==
    /\ pc = "dfs"
    /\ stack = <<>>
    /\ root <= Len(graph_keys)
    /\ color[graph_keys[root]] # WHITE
    /\ root' = root + 1
    /\ UNCHANGED <<pc, graph_keys, graph, color, cycles, stack, substVars, buildVars, extractVars, lintVars>>

\* one iteration of "for neighbor in graph.get(node, [])"
DfsNeighbor ==
    /\ pc = "dfs"
    /\ stack # <<>>
    /\ Top.i <= Len(graph[Top.node])
    /\ LET neighbor == graph[Top.node][Top.i]
           resumed == [stack EXCEPT ![Len(stack)].i = Top.i + 1]
       IN IF IsBackEdge(color[neighbor])
          THEN /\ cycles' = Append(cycles,
                      Append(SubSeq(Top.path, Index(Top.path, neighbor), Len(Top.path)),
                             neighbor))
               /\ stack' = resumed
               /\ UNCHANGED color
          ELSE IF color[neighbor] = WHITE
          THEN /\ color' = [color EXCEPT ![neighbor] = EnterColor]
               /\ stack' = Append(resumed,
                      [node |-> neighbor, path |-> Append(Top.path, neighbor), i |-> 1])
               /\ UNCHANGED cycles
          ELSE /\ stack' = resumed
               /\ UNCHANGED <<color, cycles>>
    /\ UNCHANGED <<pc, graph_keys, graph, root, substVars, buildVars, extractVars, lintVars>>

DfsReturnEarly ==
    /\ pc = "dfs"
    /\ stack # <<>>
    /\ color' = [color EXCEPT ![Top.node] = BLACK]
    /\ stack' = Pop(stack)
    /\ UNCHANGED <<pc, graph_keys, graph, cycles, root, substVars, buildVars, extractVars, lintVars>>

\* color[node] = BLACK, and dfs returns
DfsReturn ==
    /\ pc = "dfs"
    /\ stack # <<>>
    /\ Top.i > Len(graph[Top.node])
    /\ color' = [color EXCEPT ![Top.node] = BLACK]
    /\ stack' = Pop(stack)
    /\ UNCHANGED <<pc, graph_keys, graph, cycles, root, substVars, buildVars, extractVars, lintVars>>

\* return cycles
DfsDone ==
    /\ pc = "dfs"
    /\ stack = <<>>
    /\ root > Len(graph_keys)
    /\ pc' = "dfs_done"
    /\ UNCHANGED <<dfsVars, substVars, buildVars, extractVars, lintVars>>

DetectCycles == DfsRootEnter \/ DfsRootSkip \/ DfsNeighbor \/ DfsReturn \/ DfsDone

(***************************************************************************)
(* detect_cycles applied to every graph over Names whose dependency lists  *)
(* have at most MaxDeps entries                                            *)
(***************************************************************************)
MaxDeps == 2
KeyOrder == <<<<"F">>, <<"G">>, <<"H">>>>

InitCycles ==
    /\ pc = "dfs"
    /\ LintIdle
    /\ SubstIdle
    /\ BuildIdle
    /\ ExtractIdle
    /\ graph_keys = KeyOrder
    /\ graph \in [Names -> SeqsUpTo(Names, MaxDeps)]
    /\ color = [n \in Names |-> WHITE]
    /\ cycles = <<>>
    /\ stack = <<>>
    /\ root = 1

SpecCycles == InitCycles /\ [][DetectCycles]_vars

\* a directed cycle, defined on the graph alone
Succ(g, S) == UNION {Range(g[n]) : n \in S}

RECURSIVE ReachFrom(_, _, _)
ReachFrom(g, S, k) == IF k = 0 THEN S ELSE ReachFrom(g, S \cup Succ(g, S), k - 1)

Reachable(g, n) == ReachFrom(g, Succ(g, {n}), Cardinality(DOMAIN g))
HasCycle(g) == \E n \in DOMAIN g : n \in Reachable(g, n)

\* C1: detect_cycles returns a non-empty list exactly when the graph has a
\* directed cycle (self-loops included); {F: [G], G: [F]} gives a non-empty
\* list and {F: [G], G: [H], H: []} gives an empty one.
C1_CyclesIffCyclic ==
    pc = "dfs_done" => ((cycles # <<>>) <=> HasCycle(graph))

C1_Witness ==
    /\ pc = "dfs_done"
    /\ graph = (<<"F">> :> <<<<"G">>>>) @@ (<<"G">> :> <<<<"F">>>>) @@ (<<"H">> :> <<>>)
    /\ cycles # <<>>

C1_WitnessAcyclic ==
    /\ pc = "dfs_done"
    /\ graph = (<<"F">> :> <<<<"G">>>>) @@ (<<"G">> :> <<<<"H">>>>) @@ (<<"H">> :> <<>>)
    /\ cycles = <<>>

\* the nodes coloured gray, and the path of the innermost call of dfs
GrayNodes == {n \in DOMAIN color : color[n] = GRAY}
CurrentPath == IF stack = <<>> THEN <<>> ELSE Top.path

IsEdge(a, b) == b \in Range(graph[a])
ClosedPath(c) ==
    /\ Len(c) >= 2
    /\ c[1] = c[Len(c)]
    /\ \A i \in 1..(Len(c) - 1) : IsEdge(c[i], c[i + 1])

\* the part of path from the first place where n stands on it
SliceFrom(path, n) ==
    LET places == {j \in DOMAIN path : path[j] = n}
        first == CHOOSE i \in places : \A j \in places : i <= j
    IN [i \in 1..(Len(path) - first + 1) |-> path[first + i - 1]]

DistinctNodes(path) == \A i, j \in DOMAIN path : path[i] = path[j] => i = j

CyclesState ==
    /\ \A k \in DOMAIN cycles : ClosedPath(cycles[k])
    /\ GrayNodes = Range(CurrentPath)
    /\ DistinctNodes(CurrentPath)

CyclesStep ==
    cycles' # cycles =>
        /\ stack # <<>>
        /\ Top.i <= Len(graph[Top.node])
        /\ LET neighbor == graph[Top.node][Top.i]
           IN /\ neighbor \in GrayNodes
              /\ neighbor \in Range(CurrentPath)
              /\ cycles' = Append(cycles, Append(SliceFrom(CurrentPath, neighbor), neighbor))

\* C22: every cycle detect_cycles reports is a closed path of the graph: it
\* starts and ends with the same node and each consecutive pair is an edge;
\* it is the part of the current path from the first occurrence of the gray
\* neighbour to the current node, followed by that neighbour. Whenever dfs
\* looks at a neighbour or returns, the gray nodes are exactly the nodes of
\* the current path, so a gray neighbour is found on it.
C22_CyclesAreClosedPaths == [](CyclesState) /\ [][CyclesStep]_vars

\* F -> G -> H -> G: the cycle G, H, G is cut out of the path F, G, H
C22_Witness ==
    /\ pc = "dfs_done"
    /\ graph = (<<"F">> :> <<<<"G">>>>) @@ (<<"G">> :> <<<<"H">>>>) @@ (<<"H">> :> <<<<"G">>>>)
    /\ cycles = <<<<<<"G">>, <<"H">>, <<"G">>>>>>

\* the edge from n to m was recorded as closing a cycle
RecordedAsCycle(n, m) ==
    \E k \in DOMAIN cycles :
        LET c == cycles[k]
        IN Len(c) >= 2 /\ c[Len(c)] = m /\ c[Len(c) - 1] = n

ColourAdvances(from, to) ==
    \/ from = to
    \/ from = WHITE /\ to = GRAY
    \/ from = GRAY /\ to = BLACK

\* the nodes dfs is active for, outermost first
ActiveNodes == [k \in DOMAIN stack |-> stack[k].node]

ColourStep ==
    /\ \A n \in DOMAIN color :
           /\ ColourAdvances(color[n], color'[n])
           /\ (color[n] # BLACK /\ color'[n] = BLACK) =>
                  \A m \in Range(graph[n]) :
                      \/ color[m] = BLACK
                      \/ color[m] = GRAY /\ RecordedAsCycle(n, m)
    /\ Len(stack') > Len(stack) =>
           /\ Len(stack') = Len(stack) + 1
           /\ color[stack'[Len(stack')].node] = WHITE
           /\ color'[stack'[Len(stack')].node] = GRAY

ColourState ==
    /\ DistinctNodes(ActiveNodes)
    /\ \A k \in DOMAIN stack : color[stack[k].node] = GRAY
    /\ pc = "dfs_done" => \A n \in DOMAIN graph : color[n] = BLACK

\* C23: in detect_cycles the colour of a node only advances from white to
\* gray to black; a node is coloured black only when each of its neighbours
\* is black, or is gray with the edge to it recorded as a cycle; dfs is
\* entered for a node only while it is white, so at most once; and when
\* detect_cycles returns, every node of the graph is black.
C23_ColoursAdvance == [](ColourState) /\ [][ColourStep]_vars

\* F -> G, H; G -> H; H -> F: H is reached twice, all three end black
C23_Witness ==
    /\ pc = "dfs_done"
    /\ graph = (<<"F">> :> <<<<"G">>, <<"H">>>>) @@ (<<"G">> :> <<<<"H">>>>)
                   @@ (<<"H">> :> <<<<"F">>>>)
    /\ \A n \in DOMAIN graph : color[n] = BLACK
    /\ cycles = <<<<<<"F">>, <<"G">>, <<"H">>, <<"F">>>>>>

(***************************************************************************)
(* strip_comments                                                          *)
(***************************************************************************)
\* re.sub(r'/\*.*?\*/', '', formula, flags=re.DOTALL)
RECURSIVE StripBlockComments(_, _)
StripBlockComments(s, i) ==
    IF i > Len(s) THEN <<>>
    ELSE LET close == IF IsAt(s, i, <<"/", "*">>) THEN Find(s, <<"*", "/">>, i + 2) ELSE 0
         IN IF close # 0 THEN StripBlockComments(s, close + 2)
            ELSE <<s[i]>> \o StripBlockComments(s, i + 1)

RECURSIVE LineEnd(_, _)
LineEnd(s, i) == IF i <= Len(s) /\ s[i] # "\n" THEN LineEnd(s, i + 1) ELSE i

\* re.sub(r'//[^\n]*', '', result)
RECURSIVE StripLineComments(_, _)
StripLineComments(s, i) ==
    IF i > Len(s) THEN <<>>
    ELSE IF IsAt(s, i, <<"/", "/">>) THEN StripLineComments(s, LineEnd(s, i + 2))
    ELSE <<s[i]>> \o StripLineComments(s, i + 1)

StripComments(formula) == StripLineComments(StripBlockComments(formula, 1), 1)

(***************************************************************************)
(* expand_argument and expand_formula.  The cache the calls share and the  *)
(* two history counters travel through the recursion as the record w; a    *)
(* call returns its text, or the exception it raised, together with w.     *)
(***************************************************************************)
\* the depth of nested expand_formula calls at which Python gives up with
\* RecursionError (sys.getrecursionlimit() frames in the program)
MaxRecursion == 4

World(cache, count, re) == [cache |-> cache, parses |-> count, reentered |-> re]

\* a cache that keeps the newest entry only
CachePutAlone(w, name, text) == [w EXCEPT !.cache = (name :> text)]

\* expanded_cache[name] = ...
CachePut(w, name, text) == [w EXCEPT !.cache = (name :> text) @@ @]

Done(text, w) ==
    [ok |-> TRUE, text |-> text, err |-> "", expected |-> 0, got |-> 0, w |-> w]
Fails(err, m, n, w) ==
    [ok |-> FALSE, text |-> <<>>, err |-> err, expected |-> m, got |-> n, w |-> w]

\* f"({substituted})", or the exception substitute_arguments raised
Wrapped(sub, w) ==
    IF sub.ok THEN Done(<<"(">> \o sub.text \o <<")">>, w)
    ELSE Fails(sub.err, sub.expected, sub.got, w)

\* an argument as the parser left it, handed on without expansion
RawArg(arg) == IF arg.t = "empty" THEN StrArg(EMPTY) ELSE ListArg(arg.items)
RawArgs(args) == [k \in DOMAIN args |-> RawArg(args[k])]
StrArgs(texts) == [k \in DOMAIN texts |-> StrArg(texts[k])]

StartsWith(s, p) == IsAt(s, 1, p)
EndsWith(s, p) == Len(p) <= Len(s) /\ SubSeq(s, Len(s) - Len(p) + 1, Len(s)) = p
Count(s, c) == Cardinality({i \in DOMAIN s : s[i] = c})

\* str.replace(old, new): every occurrence, left to right, without overlap
RECURSIVE Replace(_, _, _, _)
Replace(s, old, new, i) ==
    IF i > Len(s) THEN <<>>
    ELSE IF IsAt(s, i, old) THEN new \o Replace(s, old, new, i + Len(old))
    ELSE <<s[i]>> \o Replace(s, old, new, i + 1)

formula_starters ==
    {<<"L", "E", "T", "(">>, <<"L", "A", "M", "B", "D", "A", "(">>,
     <<"B", "Y", "R", "O", "W", "(">>, <<"B", "Y", "C", "O", "L", "(">>,
     <<"M", "A", "K", "E", "A", "R", "R", "A", "Y", "(">>,
     <<"F", "I", "L", "T", "E", "R", "(">>, <<"D", "E", "N", "S", "I", "F", "Y", "(">>}

RECURSIVE ExpandFormula(_, _, _, _), ExpandArgument(_, _, _, _, _),
          ExpandEach(_, _, _, _, _, _, _), ExpandCalls(_, _, _, _, _, _)

\* expand_argument; inResults tells a call held as ParseResults (lines
\* 627-643, under a parenthesized expression) from one held as a dict
\* (lines 610-626)
ExpandArgument(arg, all_formulas, w, active, inResults) ==
    LET Joined(r) == IF r.ok THEN Done(JoinWith(r.texts, <<" ">>), r.w) ELSE r
        Parenthesized(r) == IF r.ok THEN Done(<<"(">> \o r.text \o <<")">>, r.w) ELSE r
        func_def == all_formulas[arg.function]
        Substituted(func_expanded_stripped, ea) ==
            IF ~ea.ok THEN ea
            ELSE Wrapped(SubstituteArguments(func_expanded_stripped,
                             func_def.parameters, StrArgs(ea.texts)), ea.w)
        Called(fe) ==
            IF ~fe.ok THEN fe
            ELSE IF inResults
            THEN Wrapped(SubstituteArguments(Strip(LStripEq(fe.text)),
                             func_def.parameters, RawArgs(arg.args)), fe.w)
            ELSE Substituted(Strip(LStripEq(fe.text)),
                     ExpandEach(arg.args, 1, <<>>, all_formulas, fe.w, active, FALSE))
    IN CASE arg.t = "empty" -> Done(EMPTY, w)
         [] arg.t = "tok" -> Done(arg.s, w)
         [] arg.t = "str" -> Done(<<"\"">> \o arg.content \o <<"\"">>, w)
         [] arg.t = "num" -> Done(StrOfInt(arg.v), w)
         [] arg.t = "expr" ->
               Joined(ExpandEach(arg.items, 1, <<>>, all_formulas, w, active, inResults))
         [] arg.t = "paren" ->
               Parenthesized(ExpandArgument(ExprArg(arg.inner), all_formulas, w, active, TRUE))
         [] arg.t = "call" ->
               IF arg.function \notin DOMAIN all_formulas
               THEN Done(ReconstructCall(arg.function, arg.args), w)
               ELSE Called(ExpandFormula(func_def, all_formulas, w, active))

\* [expand_argument(a, ...) for a in args], from position k on
ExpandEach(args, k, texts, all_formulas, w, active, inResults) ==
    LET Then(r) ==
            IF r.ok
            THEN ExpandEach(args, k + 1, Append(texts, r.text), all_formulas, r.w,
                            active, inResults)
            ELSE r
    IN IF k > Len(args)
       THEN [ok |-> TRUE, texts |-> texts, w |-> w]
       ELSE Then(ExpandArgument(args[k], all_formulas, w, active, inResults))

\* the loop "for call in top_level_calls" (lines 696-725), from call k on
ExpandCalls(calls, k, result, all_formulas, w, active) ==
    LET func_def == all_formulas[calls[k].name]
        call_text == ReconstructCall(calls[k].name, calls[k].args)
        Replaced(fe, substituted) ==
            IF ~substituted.ok
            THEN Fails(substituted.err, substituted.expected, substituted.got, fe.w)
            ELSE ExpandCalls(calls, k + 1,
                     Replace(result, call_text,
                             <<"(">> \o substituted.text \o <<")">>, 1),
                     all_formulas, fe.w, active)
        Expanded(ea, fe) ==
            IF ~fe.ok THEN fe
            ELSE Replaced(fe, SubstituteArguments(Strip(LStripEq(fe.text)),
                                  func_def.parameters, StrArgs(ea.texts)))
        Then(ea) ==
            IF ~ea.ok THEN ea
            ELSE Expanded(ea, ExpandFormula(func_def, all_formulas, ea.w, active))
    IN IF k > Len(calls) THEN Done(result, w)
       ELSE Then(ExpandEach(calls[k].args, 1, <<>>, all_formulas, w, active, FALSE))

\* lines 729-734
Unwrap(result, formula_text, call_text) ==
    IF /\ StartsWith(result, <<"(">>)
       /\ EndsWith(result, <<")">>)
       /\ Count(result, "(") = Count(result, ")")
       /\ formula_text = call_text
    THEN SubSeq(result, 2, Len(result) - 1)
    ELSE result

\* lines 738-742
EnsurePrefix(result) ==
    IF ~StartsWith(result, <<"=">>) /\ \E starter \in formula_starters : StartsWith(result, starter)
    THEN <<"=">> \o result
    ELSE result

\* the comparison of line 746
UnexpandedNever(result, original_formula_text) == FALSE
Unexpanded(result, original_formula_text) ==
    Strip(LStripEq(result)) = Strip(LStripEq(original_formula_text))

\* the calls of a parsed text; a text that does not parse (ParseException)
\* has none
CallsOf(parsed, named_functions) ==
    IF parsed.ok THEN ExtractFunctionCalls(parsed.ast, named_functions) ELSE <<>>

ExpandFormula(formula_data, all_formulas, w, active) ==
    LET name == formula_data.name
        formula_text == Strip(StripComments(formula_data.formula))
        entered == [w EXCEPT !.parses[name] = @ + 1,
                             !.reentered = @ \/ name \in Range(active)]
        Checked(r, result) ==
            IF Unexpanded(result, formula_text)
            THEN Fails("ValidationError", 0, 0, r.w)
            ELSE Done(result, CachePut(r.w, name, result))
        Finished(r, last) ==
            IF ~r.ok THEN r
            ELSE Checked(r, EnsurePrefix(Unwrap(r.text, formula_text,
                                ReconstructCall(last.name, last.args))))
        Then(calls) ==
            IF calls = <<>>
            THEN Done(formula_text, CachePut(entered, name, formula_text))
            ELSE Finished(ExpandCalls(calls, 1, formula_text, all_formulas, entered,
                                      Append(active, name)),
                          calls[Len(calls)])
    IN IF name \in DOMAIN w.cache THEN Done(w.cache[name], w)
       ELSE IF Len(active) >= MaxRecursion THEN Fails("RecursionError", 0, 0, w)
       ELSE Then(CallsOf(Parse(formula_text), DOMAIN all_formulas))

(***************************************************************************)
(* The build: main, load_and_validate_formulas, build_dependency_graph,    *)
(* detect_cycles (the search actions above), generate_formula_list         *)
(***************************************************************************)
Formula(name, parameters, formula) ==
    [name |-> name, parameters |-> parameters, formula |-> formula]

\* all_formulas = {f['name']: f for f in formulas}
AllFormulas(fs) ==
    [n \in {fs[i].name : i \in DOMAIN fs} |->
        fs[CHOOSE i \in DOMAIN fs : fs[i].name = n /\ \A j \in DOMAIN fs : fs[j].name = n => j <= i]]

\* str.lower() and the code point of the result, for the characters of names
LowerCodePoint ==
    [c \in WordChars |->
        CASE c = "a" -> 97 [] c = "b" -> 98 [] c = "n" -> 110 [] c = "x" -> 120
          [] c = "y" -> 121 [] c = "F" -> 102 [] c = "G" -> 103 [] c = "H" -> 104
          [] c = "S" -> 115 [] c = "0" -> 48 [] c = "1" -> 49 [] c = "2" -> 50
          [] c = "_" -> 95]

\* a.lower() < b.lower() for Python strings
RECURSIVE LowerLess(_, _)
LowerLess(a, b) ==
    IF b = <<>> THEN FALSE
    ELSE IF a = <<>> THEN TRUE
    ELSE IF LowerCodePoint[Head(a)] # LowerCodePoint[Head(b)]
    THEN LowerCodePoint[Head(a)] < LowerCodePoint[Head(b)]
    ELSE LowerLess(Tail(a), Tail(b))

\* sorted(formulas, key=lambda f: f['name'].lower()); the sort is stable
RECURSIVE InsertByName(_, _)
InsertByName(sorted, f) ==
    IF sorted = <<>> THEN <<f>>
    ELSE IF LowerLess(f.name, Head(sorted).name) THEN <<f>> \o sorted
    ELSE <<Head(sorted)>> \o InsertByName(Tail(sorted), f)

RECURSIVE SortedFormulas(_)
SortedFormulas(fs) ==
    IF fs = <<>> THEN <<>>
    ELSE InsertByName(SortedFormulas(SubSeq(fs, 1, Len(fs) - 1)), fs[Len(fs)])

\* {c['name'] for c in calls}, for a formula text as the catalog holds it
\* (comments are not stripped here); a text that does not parse has none
Dependencies(formula_text, named_functions) ==
    LET Then(calls) == {calls[k].name : k \in DOMAIN calls}
    IN Then(CallsOf(Parse(formula_text), named_functions))

\* list(set): the members in some order
Orderings(S) ==
    {q \in [1..Cardinality(S) -> S] : \A i, j \in DOMAIN q : q[i] = q[j] => i = j}

\* main returns at once when there is nothing to load; generate_formula_list
\* then gives the placeholder text
LoadNothing ==
    /\ pc = "load"
    /\ formulas = <<>>
    /\ pc' = "generate"
    /\ UNCHANGED <<substVars, dfsVars, buildVars, extractVars, lintVars>>

\* build_dependency_graph, and the first lines of detect_cycles
BuildDependencyGraph ==
    /\ pc = "load"
    /\ formulas # <<>>
    /\ LET named_functions == {formulas[i].name : i \in DOMAIN formulas}
           all_formulas == AllFormulas(formulas)
           orders == [n \in named_functions |->
                         Orderings(Dependencies(all_formulas[n].formula, named_functions))]
       IN /\ graph_keys' = [i \in DOMAIN formulas |-> formulas[i].name]
          /\ graph' \in {g \in [named_functions -> UNION {orders[n] : n \in named_functions}] :
                            \A n \in named_functions : g[n] \in orders[n]}
          /\ color' = [n \in named_functions |-> WHITE]
    /\ cycles' = <<>>
    /\ stack' = <<>>
    /\ root' = 1
    /\ pc' = "dfs"
    /\ UNCHANGED <<substVars, buildVars, extractVars, lintVars>>

\* if cycles: raise ValidationError (lines 812-816); main returns 1
CyclesFoundNever(c) == FALSE
CyclesFound(c) == c # <<>>

RejectCycles ==
    /\ pc = "dfs_done"
    /\ formulas # <<>>
    /\ CyclesFound(cycles)
    /\ pc' = "failed"
    /\ UNCHANGED <<substVars, dfsVars, buildVars, extractVars, lintVars>>

\* no cycle: load_and_validate_formulas returns the catalog
AcceptCatalog ==
    /\ pc = "dfs_done"
    /\ formulas # <<>>
    /\ ~CyclesFound(cycles)
    /\ pc' = "generate"
    /\ UNCHANGED <<substVars, dfsVars, buildVars, extractVars, lintVars>>

Summary(r) ==
    [ok |-> r.ok, text |-> r.text, err |-> r.err, expected |-> r.expected, got |-> r.got]

\* one pass of "for formula in sorted_formulas", up to the return of
\* expand_formula or the exception it raised
ExpandNext ==
    /\ pc = "generate"
    /\ formulas # <<>>
    /\ idx <= Len(formulas)
    /\ LET Then(r) ==
               /\ expanded_cache' = r.w.cache
               /\ parses' = r.w.parses
               /\ reentered' = r.w.reentered
               /\ outcome' = Summary(r)
               /\ IF r.ok
                  THEN idx' = idx + 1 /\ pc' = "generate"
                  ELSE idx' = idx /\ pc' = "except"
       IN Then(ExpandFormula(SortedFormulas(formulas)[idx], AllFormulas(formulas),
                             World(expanded_cache, parses, reentered), <<>>))
    /\ UNCHANGED <<formulas, expansion_failures, substVars, dfsVars, extractVars, lintVars>>

RecordFailureAndStop ==
    /\ pc = "except"
    /\ expansion_failures' = Append(expansion_failures,
           [name |-> SortedFormulas(formulas)[idx].name, err |-> outcome.err])
    /\ pc' = "failed"
    /\ UNCHANGED <<formulas, idx, expanded_cache, parses, reentered, outcome,
                   substVars, dfsVars, extractVars, lintVars>>

\* except Exception (lines 849-854)
RecordFailure ==
    /\ pc = "except"
    /\ LET formula == SortedFormulas(formulas)[idx]
       IN /\ expansion_failures' = Append(expansion_failures,
                 [name |-> formula.name, err |-> outcome.err])
          /\ expanded_cache' = (formula.name :> Strip(StripComments(formula.formula)))
                                   @@ expanded_cache
    /\ idx' = idx + 1
    /\ pc' = "generate"
    /\ UNCHANGED <<formulas, parses, reentered, outcome, substVars, dfsVars, extractVars, lintVars>>

\* lines 857-864: any failure blocks the build; main returns 1
BlockBuild ==
    /\ pc = "generate"
    /\ formulas # <<>>
    /\ idx > Len(formulas)
    /\ expansion_failures # <<>>
    /\ pc' = "failed"
    /\ UNCHANGED <<substVars, dfsVars, buildVars, extractVars, lintVars>>

\* the list is generated and main writes README.md
WriteReadme ==
    /\ pc = "generate"
    /\ formulas = <<>> \/ (idx > Len(formulas) /\ expansion_failures = <<>>)
    /\ pc' = "written"
    /\ UNCHANGED <<substVars, dfsVars, buildVars, extractVars, lintVars>>

(***************************************************************************)
(* The build applied to catalogs of three formulas F(x), G(...), H(x)      *)
(* whose bodies are drawn from Bodies, and to the empty catalog            *)
(***************************************************************************)
Bodies ==
    {<<"x", "+", "1">>,
     <<"x">>,
     <<"G", "(", "x", ")">>,
     <<"H", "(", "x", ")">>,
     <<"F", "(", "x", ")">>,
     <<"G", "(", "H", "(", "x", ")", ")">>,
     <<"H", "(", "x", ",", " ", "1", ")">>,
     <<"H", "(", "x", "+", "1", ")">>,
     <<"G", "(", "x", ")", " ", "/", "/", " ", "n">>,
     <<"S", "(", "H", "(", "x", ")", ")">>,
     <<"H", "(", "x", ")", " ", "+", " ", "H", "(", "1", ")">>,
     <<"G", "(", "(", "H", "(", "x", ")", ")", ")">>,
     <<"G", "(", ")">>,
     <<"S", "(", "x", ")">>,
     <<"G", "(", "S", "(", "y", ")", ",", " ", "1", ")">>,
     <<"x", " ", "+">>,
     <<"\"", "(", "x", "\"">>,
     <<"S", "H", "(", "x", ")", "+", "H", "(", "x", ")">>}

GParameters == {<<>>, <<<<"x">>>>, <<<<"x">>, <<"y">>>>}

Catalogs ==
    {<<>>} \cup
    {<<Formula(<<"F">>, <<<<"x">>>>, fb), Formula(<<"G">>, gp, gb),
       Formula(<<"H">>, <<<<"x">>>>, hb)>> :
        fb \in Bodies, gb \in Bodies, hb \in Bodies, gp \in GParameters}

InitBuild ==
    /\ pc = "load"
    /\ LintIdle
    /\ SubstIdle
    /\ DfsIdle
    /\ ExtractIdle
    /\ formulas \in Catalogs
    /\ idx = 1
    /\ expanded_cache = <<>>
    /\ expansion_failures = <<>>
    /\ parses = [n \in {formulas[i].name : i \in DOMAIN formulas} |-> 0]
    /\ reentered = FALSE
    /\ outcome = NoResult

NextBuild ==
    \/ LoadNothing
    \/ BuildDependencyGraph
    \/ DfsRootEnter
    \/ DfsRootSkip
    \/ DfsNeighbor
    \/ DfsReturn
    \/ DfsDone
    \/ RejectCycles
    \/ AcceptCatalog
    \/ ExpandNext
    \/ RecordFailure
    \/ BlockBuild
    \/ WriteReadme

SpecBuild == InitBuild /\ [][NextBuild]_vars

(***************************************************************************)
(* What the build is required to do                                        *)
(***************************************************************************)
CatalogNames == {formulas[i].name : i \in DOMAIN formulas}
StrippedBody(f) == Strip(StripComments(f.formula))

\* the named calls of a formula's body once its comments are stripped
NamedCalls(f) == CallsOf(Parse(StrippedBody(f)), CatalogNames)

\* the formula the last expand_formula call of the loop was made for
Invoked == outcome # NoResult
Last == SortedFormulas(formulas)[IF pc = "except" THEN idx ELSE idx - 1]

FailedNames == {expansion_failures[i].name : i \in DOMAIN expansion_failures}

\* detect_cycles has run on the whole graph of a non-empty catalog
DetectionComplete ==
    /\ graph_keys # <<>>
    /\ stack = <<>>
    /\ root > Len(graph_keys)
    /\ \A n \in DOMAIN color : color[n] = BLACK

\* the calls of the bodies as expansion reads them, and whether they close a cycle
CallGraph == [n \in CatalogNames |->
    LET calls == NamedCalls(AllFormulas(formulas)[n])
    IN [k \in DOMAIN calls |-> calls[k].name]]

\* every call of every body supplies as many arguments as its callee declares
ArityRespected ==
    \A i \in DOMAIN formulas :
        LET calls == NamedCalls(formulas[i])
        IN \A k \in DOMAIN calls :
               Len(calls[k].args) = Len(AllFormulas(formulas)[calls[k].name].parameters)

\* text holds a call of name: the name as a whole token, then "("
HasCallTo(text, name) ==
    \E i \in DOMAIN text :
        /\ IsAt(text, i, name)
        /\ ~IsWordAt(text, i - 1)
        /\ LET j == SkipWs(text, i + Len(name)) IN j <= Len(text) /\ text[j] = "("

\* C2: for a catalog that passes cycle detection, expand_formula terminates
\* for every formula: it is never entered for a formula whose expansion is
\* still in progress (so the recursion limit is never reached), whatever the
\* bodies hold, comments and texts build_dependency_graph cannot parse
\* included.
C2_NoReentry ==
    (DetectionComplete /\ cycles = <<>>)
        => (~reentered /\ outcome.err # "RecursionError")

\* The same for the catalogs whose bodies hold no comment.
NoReentryWithoutComments ==
    (DetectionComplete /\ cycles = <<>>
        /\ \A i \in DOMAIN formulas : StripComments(formulas[i].formula) = formulas[i].formula)
        => (~reentered /\ outcome.err # "RecursionError")

\* C3: in the build, expand_formula is invoked only after detect_cycles has
\* run on the whole graph and reported no cycle; when a cycle is reported the
\* build fails with a ValidationError and no formula is expanded.
C3_DetectBeforeExpand ==
    /\ (Invoked \/ \E n \in DOMAIN parses : parses[n] > 0)
           => (DetectionComplete /\ cycles = <<>>)
    /\ cycles # <<>>
           => (pc \in {"dfs", "dfs_done", "failed"} /\ ~Invoked /\ expanded_cache = <<>>)
    /\ (DetectionComplete /\ cycles # <<>> /\ pc # "dfs" /\ pc # "dfs_done") => pc = "failed"

C3_Witness ==
    /\ pc = "failed"
    /\ cycles # <<>>
    /\ ~Invoked
    /\ formulas # <<>>

C3_WitnessExpanded ==
    /\ pc = "written"
    /\ Invoked
    /\ cycles = <<>>
    /\ DetectionComplete

\* C4: for an acyclic catalog in which every call supplies as many arguments
\* as its callee has parameters, the text a successful expand_formula(F)
\* returns holds no call of a catalog name, whatever the nesting of the calls
\* in F's body.
C4_NoCatalogCallLeft ==
    (Invoked /\ outcome.ok /\ ~HasCycle(CallGraph) /\ ArityRespected)
        => \A n \in CatalogNames : ~HasCallTo(outcome.text, n)

\* the returned text against the body: the same once a leading = and
\* surrounding blanks are set aside
Differs(text, body) == Strip(LStripEq(text)) # Strip(LStripEq(body))

\* C5: when expand_formula(F) extracts a named call from F's body it returns
\* text that differs from the body or raises the consistency ValidationError,
\* and in the error case writes no cache entry for F.
C5_DiffersOrValidationError ==
    (Invoked /\ NamedCalls(Last) # <<>>)
        => \/ outcome.ok /\ Differs(outcome.text, StrippedBody(Last))
           \/ /\ outcome.err = "ValidationError"
              /\ pc = "except" => Last.name \notin DOMAIN expanded_cache

\* C5 as the code has it: the call returns text that differs from the body,
\* which is then the cache entry of F, or it raises: the consistency
\* ValidationError, or the error of a substitution or of a callee's
\* expansion; when it raises, expand_formula has written no cache entry for
\* F. No entry expand_formula wrote for a formula with named calls equals
\* that formula's body.
C5_DiffersOrRaises ==
    /\ (Invoked /\ NamedCalls(Last) # <<>>)
           => IF outcome.ok
              THEN /\ Differs(outcome.text, StrippedBody(Last))
                   /\ expanded_cache[Last.name] = outcome.text
              ELSE /\ outcome.err \in {"ValidationError", "ValueError", "re.error",
                                       "RecursionError"}
                   /\ pc = "except" => Last.name \notin DOMAIN expanded_cache
    /\ \A n \in DOMAIN expanded_cache \ FailedNames :
           NamedCalls(AllFormulas(formulas)[n]) # <<>>
               => Differs(expanded_cache[n], StrippedBody(AllFormulas(formulas)[n]))

\* H(x + 1) does not occur in the body H(x+1): nothing is replaced
C5_Witness ==
    /\ pc = "except"
    /\ Last.name = <<"F">>
    /\ Last.formula = <<"H", "(", "x", "+", "1", ")">>
    /\ outcome.err = "ValidationError"
    /\ <<"F">> \notin DOMAIN expanded_cache

C5_WitnessValueError ==
    /\ pc = "except"
    /\ NamedCalls(Last) # <<>>
    /\ outcome.err = "ValueError"

\* C6: within one build the body of each formula is expanded (parsed, its
\* calls substituted) at most once, however many callers reference it and
\* whether its expansion succeeds or fails.
C6_ExpandedAtMostOnce ==
    \A n \in DOMAIN parses : parses[n] <= 1

\* The same for the formulas whose expansion succeeded, in a build without
\* re-entry.
ExpandedOnceWhenSuccessful ==
    \A n \in DOMAIN parses :
        (n \in DOMAIN expanded_cache /\ n \notin FailedNames /\ ~reentered) => parses[n] <= 1

\* the first call the loop of expand_formula works on
FirstCall(f) == NamedCalls(f)[1]
Mismatched(c) == Len(c.args) # Len(AllFormulas(formulas)[c.name].parameters)
HasMismatch(f) == \E k \in DOMAIN NamedCalls(f) : Mismatched(NamedCalls(f)[k])

C9_WitnessNoArgument ==
    /\ Invoked
    /\ Last.name = <<"F">>
    /\ Last.formula = <<"G", "(", ")">>
    /\ AllFormulas(formulas)[<<"G">>].parameters = <<>>
    /\ outcome.ok

\* the calls of a body to names outside the catalog whose arguments hold no
\* call to a catalog name, as call sites
UnknownNames == {<<"S">>}
UnknownCalls(f) ==
    LET calls == CallsOf(Parse(StrippedBody(f)), UnknownNames)
    IN {calls[k] : k \in {j \in DOMAIN calls :
                             WalkArgs(calls[j].args, CatalogNames, 0) = <<>>}}

Contains(text, part) ==
    \E i \in 1..(Len(text) - Len(part) + 1) : SubSeq(text, i, i + Len(part) - 1) = part

\* the graph is there: build_dependency_graph has returned
GraphBuilt == pc # "load" /\ formulas # <<>>

\* C17: a call to a name that is not in the catalog is no error: the graph
\* has no edge for it, a formula that calls only such names expands without
\* an exception, and in the expanded text of a formula the call stands as it
\* was written (when its arguments hold no call to a catalog name).
C17_UnknownCallsUntouched ==
    /\ GraphBuilt => \A n \in DOMAIN graph : Range(graph[n]) \subseteq CatalogNames
    /\ (Invoked /\ NamedCalls(Last) = <<>> /\ UnknownCalls(Last) # {}) => outcome.ok
    /\ (Invoked /\ outcome.ok) =>
           \A c \in UnknownCalls(Last) :
               Contains(StrippedBody(Last), ReconstructCall(c.name, c.args))
                   => Contains(outcome.text, ReconstructCall(c.name, c.args))

\* The same where no call passes two arguments: then no argument text is
\* rewritten by the substitution of a later parameter.
UnknownCallsUntouchedWithOneArgument ==
    /\ GraphBuilt => \A n \in DOMAIN graph : Range(graph[n]) \subseteq CatalogNames
    /\ (Invoked /\ NamedCalls(Last) = <<>> /\ UnknownCalls(Last) # {}) => outcome.ok
    /\ (Invoked /\ outcome.ok
           /\ \A k \in DOMAIN NamedCalls(Last) : Len(NamedCalls(Last)[k].args) <= 1) =>
           \A c \in UnknownCalls(Last) :
               Contains(StrippedBody(Last), ReconstructCall(c.name, c.args))
                   => Contains(outcome.text, ReconstructCall(c.name, c.args))

NoDuplicates(q) == \A i, j \in DOMAIN q : q[i] = q[j] => i = j

\* keys, targets and duplicates of the graph
GraphShape ==
    GraphBuilt =>
        /\ DOMAIN graph = CatalogNames
        /\ Range(graph_keys) = CatalogNames
        /\ \A n \in DOMAIN graph :
               /\ Range(graph[n]) \subseteq DOMAIN graph
               /\ NoDuplicates(graph[n])

\* C18: the graph has exactly the catalog's names as keys, every dependency
\* is a key, none is listed twice, and X has an edge to Y exactly when a
\* call site extracted from X's body (the body the core works on, comments
\* stripped) names Y.
C18_GraphMatchesCalls ==
    /\ GraphShape
    /\ GraphBuilt =>
           \A X \in CatalogNames, Y \in CatalogNames :
               Y \in Range(graph[X]) <=>
                   \E k \in DOMAIN NamedCalls(AllFormulas(formulas)[X]) :
                       NamedCalls(AllFormulas(formulas)[X])[k].name = Y

\* The edges are those of the call sites extracted from the body as the
\* catalog holds it, comments included; a body that does not parse that way
\* has no edge.
GraphMatchesRawText ==
    /\ GraphShape
    /\ GraphBuilt =>
           \A X \in CatalogNames :
               Range(graph[X]) = Dependencies(AllFormulas(formulas)[X].formula, CatalogNames)

\* generate_formula_list has raised its ValidationError / has returned the
\* document of a catalog that is not empty
BuildBlocked == pc = "failed" /\ cycles = <<>> /\ formulas # <<>>
DocumentReturned == pc = "written" /\ formulas # <<>>

Attempted == IF pc = "except" THEN idx ELSE idx - 1

BatchState ==
    /\ BuildBlocked =>
           /\ Attempted = Len(formulas)
           /\ expansion_failures # <<>>
    /\ DocumentReturned =>
           /\ Attempted = Len(formulas)
           /\ expansion_failures = <<>>
           /\ Invoked /\ outcome.ok
           /\ CatalogNames \subseteq DOMAIN expanded_cache
    /\ \A k \in DOMAIN expansion_failures :
           \E i \in 1..Attempted : SortedFormulas(formulas)[i].name = expansion_failures[k].name
    /\ NoDuplicates(expansion_failures)

BatchStep ==
    /\ (pc = "generate" /\ pc' = "except") =>
           /\ ~outcome'.ok
           /\ idx' = idx
           /\ expansion_failures' = expansion_failures
    /\ (pc = "generate" /\ pc' = "generate") =>
           /\ outcome'.ok
           /\ idx' = idx + 1
           /\ expansion_failures' = expansion_failures
    /\ pc = "except" =>
           /\ pc' = "generate"
           /\ idx' = idx + 1
           /\ expansion_failures' = Append(expansion_failures,
                  [name |-> SortedFormulas(formulas)[idx].name, err |-> outcome.err])
    /\ pc' \in {"failed", "written"} =>
           expansion_failures' = expansion_failures /\ idx' = idx

\* C19: generate_formula_list attempts every formula, also after a failure;
\* every expansion that raised is recorded under its formula's name; with at
\* least one failure it raises one ValidationError carrying all of them and
\* returns no document; it returns the document only when every expansion
\* returned.
C19_BatchReporting == [](BatchState) /\ [][BatchStep]_vars

\* two formulas failed and both are reported
C19_Witness ==
    /\ BuildBlocked
    /\ Len(expansion_failures) = 2
    /\ expansion_failures[1].name = <<"F">>
    /\ expansion_failures[2].name = <<"H">>

C19_WitnessDocument == DocumentReturned /\ Len(formulas) = 3

\* the formulas handled so far whose body, comments stripped, does not parse
UnparsableAttempted ==
    {SortedFormulas(formulas)[i].name : i \in
        {j \in 1..Attempted : ~Parse(StrippedBody(SortedFormulas(formulas)[j])).ok}}

\* C20: a formula whose body does not parse is reported among the failures
\* of the build; its text is not cached as an expansion that succeeded, and
\* no document is returned for a catalog that holds such a formula.
C20_UnparsableFlagged ==
    /\ pc # "except" => UnparsableAttempted \subseteq FailedNames
    /\ DocumentReturned => UnparsableAttempted = {}

\* the body of f, parsed, is one call of a catalog name and nothing else
OneCallBody(f) ==
    LET Then(parsed) ==
            /\ parsed.ok
            /\ Len(parsed.ast) = 1
            /\ parsed.ast[1].t = "call"
            /\ parsed.ast[1].function \in CatalogNames
    IN Then(Parse(StrippedBody(f)))

\* the call sites of f whose arguments hold no call of a catalog name
PlainSites(f) ==
    LET calls == NamedCalls(f)
    IN {calls[k] : k \in {j \in DOMAIN calls :
                             WalkArgs(calls[j].args, CatalogNames, 0) = <<>>}}

\* the body that is inlined at call site c: the cached expansion of the
\* callee, without its leading =, with the arguments as written put in
\* place of the parameters
InlinedAt(c) ==
    SubstituteArguments(Strip(LStripEq(expanded_cache[c.name])),
                        AllFormulas(formulas)[c.name].parameters,
                        StrArgs(StringifyArgs(c.args)))

InParentheses(text) == <<"(">> \o text \o <<")">>

\* the last expansion returned, and the calls of the body were inlined
\* directly (none stands in an argument of another catalog call)
InlinedDirectly ==
    /\ Invoked
    /\ outcome.ok
    /\ NamedCalls(Last) # <<>>
    /\ PlainSites(Last) = Range(NamedCalls(Last))

\* C26: expand_formula puts every inlined callee body in one pair of
\* parentheses at its call site; when the whole body of the formula was
\* exactly one named call, that pair is removed, and the result is the
\* inlined body itself; in every other case the parentheses stay.
C26_ParenthesesAroundInlinedBody ==
    InlinedDirectly =>
        IF OneCallBody(Last)
        THEN \A c \in PlainSites(Last) : outcome.text = EnsurePrefix(InlinedAt(c).text)
        ELSE \A c \in PlainSites(Last) :
                 Contains(outcome.text, InParentheses(InlinedAt(c).text))

\* The same when the inlined text has as many "(" as ")", string literals
\* counted in: the test of line 729 counts the parentheses of the whole text.
ParenthesesWhenBalanced ==
    (InlinedDirectly
        /\ \A c \in PlainSites(Last) :
               Count(InlinedAt(c).text, "(") = Count(InlinedAt(c).text, ")")) =>
        IF OneCallBody(Last)
        THEN \A c \in PlainSites(Last) : outcome.text = EnsurePrefix(InlinedAt(c).text)
        ELSE \A c \in PlainSites(Last) :
                 Contains(outcome.text, InParentheses(InlinedAt(c).text))

\* the body with the text of every call site replaced by the callee's
\* inlined body in parentheses, and every other character kept: a call site
\* is a place, outside string literals, where the text of a call stands and
\* no identifier character stands in front of it
CallText(c) == ReconstructCall(c.name, c.args)

RECURSIVE InlinedAtSites(_, _, _, _)
InlinedAtSites(text, i, quoted, sites) ==
    IF i > Len(text) THEN <<>>
    ELSE IF text[i] = "\"" THEN <<text[i]>> \o InlinedAtSites(text, i + 1, ~quoted, sites)
    ELSE IF /\ ~quoted
            /\ ~(i > 1 /\ text[i - 1] \in IdentBody)
            /\ \E c \in sites : IsAt(text, i, CallText(c))
    THEN LET c == CHOOSE d \in sites : IsAt(text, i, CallText(d))
         IN InParentheses(InlinedAt(c).text)
                \o InlinedAtSites(text, i + Len(CallText(c)), quoted, sites)
    ELSE <<text[i]>> \o InlinedAtSites(text, i + 1, quoted, sites)

ExpectedExpansion(f) == InlinedAtSites(StrippedBody(f), 1, FALSE, PlainSites(f))

\* with or without the pair of parentheses around the whole text
SameUpToOuterParentheses(text, expected) ==
    \/ text = expected
    \/ InParentheses(text) = expected

\* C28: expansion changes only the text of the named call sites: every
\* character of the body outside a named call site (an identifier or a call
\* whose name ends with the text of a call, the content of a string literal,
\* an operator) is the same in the expanded text, and each named call site
\* is replaced by the substituted body of its own callee.
C28_OnlyCallSitesChange ==
    InlinedDirectly =>
        SameUpToOuterParentheses(outcome.text, ExpectedExpansion(Last))

\* the number of places where part stands in text
Occurrences(text, part) ==
    Cardinality({i \in 1..Len(text) : IsAt(text, i, part)})

\* the number of call sites with the text of c, and the inlined bodies hold
\* no text of a call of the formula
SitesWritten(f, c) ==
    LET calls == NamedCalls(f)
    IN Cardinality({k \in DOMAIN calls : CallText(calls[k]) = CallText(c)})

\* The same when str.replace finds the text of each call at its call sites
\* only, in the body and in what was inlined before.
OnlyCallSitesChangeWhenTextIsUnique ==
    (InlinedDirectly
        /\ \A c \in PlainSites(Last) :
               /\ Occurrences(StrippedBody(Last), CallText(c)) = SitesWritten(Last, c)
               /\ \A d \in PlainSites(Last) :
                      Occurrences(InParentheses(InlinedAt(d).text), CallText(c)) = 0) =>
        SameUpToOuterParentheses(outcome.text, ExpectedExpansion(Last))

\* a pass of the loop calls expand_formula for the formula at idx
ExpandCalled == pc = "generate" /\ (idx' = idx + 1 \/ pc' = "except")

CacheStep ==
    /\ \A n \in DOMAIN expanded_cache :
           /\ n \in DOMAIN expanded_cache'
           /\ expanded_cache'[n] = expanded_cache[n]
    /\ (ExpandCalled /\ SortedFormulas(formulas)[idx].name \in DOMAIN expanded_cache) =>
           /\ outcome' = Returned(expanded_cache[SortedFormulas(formulas)[idx].name])
           /\ expanded_cache' = expanded_cache
           /\ parses' = parses
           /\ pc' = "generate"

\* C30: within one build a cache entry is written once: whatever calls of
\* expand_formula and failure fallbacks follow, an entry that exists is
\* never overwritten or removed, and expand_formula for a cached name
\* returns the stored text and changes nothing (no entry, no new parse).
C30_CacheWriteOnce == [][CacheStep]_vars

\* G was expanded and cached inside the expansion of F = G(x); the loop's
\* own call for G returns the stored text without parsing G again
C30_Witness ==
    /\ pc = "generate"
    /\ idx = 3
    /\ formulas[1].formula = <<"G", "(", "x", ")">>
    /\ formulas[2].formula = <<"x", "+", "1">>
    /\ outcome = Returned(<<"x", "+", "1">>)
    /\ expanded_cache[<<"G">>] = <<"x", "+", "1">>
    /\ parses[<<"G">>] = 1

\* the entry of F is the fallback written after its failure; G = F(x) is
\* expanded later and inlines that stored text
C30_WitnessFallback ==
    /\ pc = "generate"
    /\ idx = 3
    /\ <<"F">> \in FailedNames
    /\ formulas[2].formula = <<"F", "(", "x", ")">>
    /\ expanded_cache[<<"F">>] = StrippedBody(formulas[1])
    /\ outcome.ok
    /\ parses[<<"F">>] = 1

\* the formulas whose expansion raised the consistency ValidationError, as
\* positions of the sorted list
ConsistencyErrorAt ==
    {i \in 1..Attempted :
        \/ \E k \in DOMAIN expansion_failures :
               /\ expansion_failures[k].name = SortedFormulas(formulas)[i].name
               /\ expansion_failures[k].err = "ValidationError"
        \/ i = idx /\ pc = "except" /\ outcome.err = "ValidationError"}

\* C21: a cycle error and an expansion-consistency error abort the build at
\* once: when detect_cycles reported a cycle no formula is expanded, and once
\* expand_formula raised the consistency ValidationError for a formula, no
\* formula after it is expanded in that build.
C21_AbortAtOnce ==
    /\ cycles # <<>> => (~Invoked /\ \A n \in DOMAIN parses : parses[n] = 0)
    /\ \A i \in ConsistencyErrorAt : Attempted = i

\* What holds of the two kinds of error: a cycle stops the build before any
\* expansion, a consistency error is recorded and the loop goes on.
CycleAbortsConsistencyErrorIsRecorded ==
    /\ cycles # <<>> => (~Invoked /\ \A n \in DOMAIN parses : parses[n] = 0)
    /\ (pc \in {"failed", "written"} /\ cycles = <<>> /\ formulas # <<>>)
           => Attempted = Len(formulas)

(***************************************************************************)
(* parse and extract_function_calls applied to formula texts: the          *)
(* expressions nested at most MaxNesting deep that are built from x with   *)
(* calls N(e) of the catalog names F, G and the builtin S, two-argument    *)
(* calls F(e, a) and sums e + a with a one of x, G(x), and one text that is *)
(* no formula; e is x, the string literal "G(x)", or one of these texts    *)
(* again, also in parentheses                                              *)
(***************************************************************************)
MaxNesting == 3
ExtractNames == {<<"F">>, <<"G">>}
CallNames == ExtractNames \cup {<<"S">>}

SecondArgs == {<<"x">>, <<"G", "(", "x", ")">>}

\* the string literal "G(x)"
QuotedCall == <<"\"", "G", "(", "x", ")", "\"">>

RECURSIVE Nested(_)
Nested(d) ==
    IF d = 0 THEN {<<"x">>, QuotedCall}
    ELSE LET inner == Nested(d - 1)
         IN inner
            \cup {<<"(">> \o e \o <<")">> : e \in inner}
            \cup {n \o <<"(">> \o e \o <<")">> : n \in CallNames, e \in inner}
            \cup {<<"F", "(">> \o e \o <<",", " ">> \o f \o <<")">> : e \in inner, f \in SecondArgs}
            \cup {e \o <<" ", "+", " ">> \o f : e \in inner, f \in SecondArgs}

ExtractTexts == Nested(MaxNesting) \cup {<<"F", "(">>}

InitExtract ==
    /\ pc = "parse"
    /\ LintIdle
    /\ SubstIdle
    /\ DfsIdle
    /\ BuildIdle
    /\ ex_text \in ExtractTexts
    /\ ex_calls = <<>>
    /\ ex_tokens = <<>>
    /\ ex_parsed = NotParsed
    /\ ex_recon = <<>>

\* calls = parser.extract_function_calls(parser.parse(text), named_functions);
\* ParseException leaves no list
ParseAndExtract ==
    /\ pc = "parse"
    /\ LET Reconstructed(calls) ==
               /\ ex_calls' = calls
               /\ ex_recon' = [k \in DOMAIN calls |->
                                  ReconstructCall(calls[k].name, calls[k].args)]
           Then(parsed) ==
               /\ ex_parsed' = parsed
               /\ IF parsed.ok
                  THEN /\ Reconstructed(ExtractFunctionCalls(parsed.ast, ExtractNames))
                       /\ pc' = "extracted"
                  ELSE /\ ex_calls' = <<>>
                       /\ ex_recon' = <<>>
                       /\ pc' = "parse_error"
       IN Then(Parse(ex_text))
    /\ UNCHANGED <<ex_text, ex_tokens, substVars, dfsVars, buildVars, lintVars>>

NextExtract == ParseAndExtract

SpecExtract == InitExtract /\ [][NextExtract]_vars

\* the named call sites inside the arguments of call site d
InsideOf(d) == Range(WalkArgs(d.args, ExtractNames, d.depth + 1))

\* C10: extract_function_calls returns the call sites sorted by depth
\* descending: along the returned list the depth never increases, a named
\* call nested inside an argument of another named call comes before that
\* call, and for F(G(x)) the list is exactly [G, F].
C10_SortedByDepthDescending ==
    pc = "extracted" =>
        /\ \A i, j \in DOMAIN ex_calls : i < j => ex_calls[i].depth >= ex_calls[j].depth
        /\ \A j \in DOMAIN ex_calls : \A c \in InsideOf(ex_calls[j]) :
               \E i \in 1..(j - 1) : ex_calls[i] = c
        /\ ex_text = <<"F", "(", "G", "(", "x", ")", ")">> =>
               [i \in DOMAIN ex_calls |-> ex_calls[i].name] = <<<<"G">>, <<"F">>>>

C10_Witness ==
    /\ pc = "extracted"
    /\ ex_text = <<"F", "(", "G", "(", "x", ")", ")">>
    /\ Len(ex_calls) = 2
    /\ ex_calls[1].name = <<"G">> /\ ex_calls[1].depth = 1
    /\ ex_calls[2].name = <<"F">> /\ ex_calls[2].depth = 0

\* the number of places of the text, outside string literals, where the name
\* n stands as a whole name directly in front of "("
RECURSIVE CallsWritten(_, _, _, _)
CallsWritten(text, n, i, quoted) ==
    IF i > Len(text) THEN 0
    ELSE IF text[i] = "\"" THEN CallsWritten(text, n, i + 1, ~quoted)
    ELSE (IF /\ ~quoted
             /\ i + Len(n) <= Len(text)
             /\ SubSeq(text, i, i + Len(n) - 1) = n
             /\ text[i + Len(n)] = "("
             /\ (i = 1 \/ text[i - 1] \notin IdentBody)
          THEN 1 ELSE 0) + CallsWritten(text, n, i + 1, quoted)

CallsRecorded(n) == Cardinality({k \in DOMAIN ex_calls : ex_calls[k].name = n})

\* C11: extract_function_calls records one call site for each call of a
\* known name that the text holds outside string literals, wherever it stands
\* (in an argument of a known or unknown call, in parentheses, after an
\* operator, repeated), and no call site for any other name.
C11_OneSitePerNamedCall ==
    pc = "extracted" =>
        /\ \A k \in DOMAIN ex_calls : ex_calls[k].name \in ExtractNames
        /\ \A n \in ExtractNames : CallsRecorded(n) = CallsWritten(ex_text, n, 1, FALSE)

\* F(S(G(x)), G(x)): G twice, once inside the unknown call S
C11_Witness ==
    /\ pc = "extracted"
    /\ ex_text = <<"F", "(", "S", "(", "G", "(", "x", ")", ")", ",", " ",
                   "G", "(", "x", ")", ")">>
    /\ CallsRecorded(<<"G">>) = 2
    /\ CallsRecorded(<<"F">>) = 1

\* S("G(x)"): the name stands inside a string literal only
C11_WitnessQuoted ==
    /\ pc = "extracted"
    /\ ex_text = <<"S", "(">> \o QuotedCall \o <<")">>
    /\ ex_calls = <<>>

\* the calls of known names that stand outside the arguments of every call
\* whose name is in nesting, in the order they are written
Site(name, args) == [name |-> name, args |-> args]

RECURSIVE OutermostSites(_, _, _), OutermostInArgs(_, _, _)
OutermostSites(items, named, nesting) ==
    IF items = <<>> THEN <<>>
    ELSE LET item == Head(items)
         IN (IF item.t = "call"
             THEN (IF item.function \in named
                   THEN <<Site(item.function, item.args)>> ELSE <<>>)
                  \o (IF item.function \in nesting
                      THEN <<>> ELSE OutermostInArgs(item.args, named, nesting))
             ELSE IF item.t = "paren"
             THEN OutermostSites(item.inner, named, nesting)
             ELSE <<>>)
            \o OutermostSites(Tail(items), named, nesting)

OutermostInArgs(args, named, nesting) ==
    IF args = <<>> THEN <<>>
    ELSE (IF Head(args).t = "expr"
          THEN OutermostSites(Head(args).items, named, nesting) ELSE <<>>)
         \o OutermostInArgs(Tail(args), named, nesting)

\* the returned call sites of depth 0
DepthZero ==
    LET zero == SelectSeq(ex_calls, LAMBDA c : c.depth = 0)
    IN [k \in DOMAIN zero |-> Site(zero[k].name, zero[k].args)]

\* C24: the depth of a returned call site is 0 exactly when the call is not
\* nested inside an argument of another call of a known name; a known call
\* nested only inside calls of other names, as G in S(G(x)), has depth 0.
C24_DepthZeroOutsideNamedCalls ==
    pc = "extracted" =>
        /\ \A k \in DOMAIN ex_calls : ex_calls[k].depth >= 0
        /\ DepthZero = OutermostSites(ex_parsed.ast, ExtractNames, ExtractNames)

\* The depth counts the calls of any name around the call site: it is 0
\* exactly when the call stands in no argument of any call.
DepthZeroOutsideEveryCall ==
    pc = "extracted" =>
        /\ \A k \in DOMAIN ex_calls : ex_calls[k].depth >= 0
        /\ DepthZero = OutermostSites(ex_parsed.ast, ExtractNames, CallNames)

(***************************************************************************)
(* parse, extract_function_calls and reconstruct_call applied to texts     *)
(* written from a few pieces: operator sequences, one call G(...) with     *)
(* arguments written from pieces, and G(...) around quote characters       *)
(***************************************************************************)
MaxTokens == 4
MaxQuoted == 6

\* <> stands for the two-character operators, * for the one-character ones
\* other than + and -, AND (between blanks) for the keyword operators
OperatorPieces ==
    {<<"x">>, <<"+">>, <<"-">>, <<"*">>, <<"=">>, <<"<", ">">>,
     <<" ", "A", "N", "D", " ">>, <<" ">>, <<"(">>, <<")">>, <<",">>}
ArgumentPieces ==
    {<<"x">>, <<"+">>, <<"-">>, <<",">>, <<" ">>, <<"1">>, <<"0">>, <<"(">>, <<")">>}
QuotePieces == {<<"\"">>, <<"'">>, <<"a">>}

CallOf(pieces) == <<<<"G">>, <<"(">>>> \o pieces \o <<<<")">>>>

OperatorTexts == SeqsUpTo(OperatorPieces, MaxTokens)
CallTexts == {CallOf(t) : t \in SeqsUpTo(ArgumentPieces, MaxTokens)}
StringTexts == {CallOf(t) : t \in SeqsUpTo(QuotePieces, MaxQuoted)}

RECURSIVE Flatten(_)
Flatten(pieces) == IF pieces = <<>> THEN <<>> ELSE Head(pieces) \o Flatten(Tail(pieces))

InitParse ==
    /\ pc = "parse"
    /\ LintIdle
    /\ SubstIdle
    /\ DfsIdle
    /\ BuildIdle
    /\ ex_tokens \in OperatorTexts \cup CallTexts \cup StringTexts
    /\ ex_text = Flatten(ex_tokens)
    /\ ex_calls = <<>>
    /\ ex_parsed = NotParsed
    /\ ex_recon = <<>>

SpecParse == InitParse /\ [][NextExtract]_vars

\* the text is one call G(...) and nothing else
IsOneCall ==
    /\ pc = "extracted"
    /\ ex_tokens \in CallTexts \cup StringTexts
    /\ Len(ex_parsed.ast) = 1
    /\ ex_parsed.ast[1].t = "call"

\* the call site of that call (the last of the list: its depth is 0) and
\* its reconstruction
TheCall == ex_calls[Len(ex_calls)]
TheCallText == ex_recon[Len(ex_recon)]

\* a text without the blanks that stand next to a comma
RECURSIVE NoBlanksAtCommas(_, _)
NoBlanksAtCommas(t, i) ==
    IF i > Len(t) THEN <<>>
    ELSE IF t[i] \in Whitespace /\ \E j \in 1..Len(t) :
                /\ t[j] = ","
                /\ \A k \in (IF i < j THEN i..(j - 1) ELSE (j + 1)..i) : t[k] \in Whitespace
    THEN NoBlanksAtCommas(t, i + 1)
    ELSE <<t[i]>> \o NoBlanksAtCommas(t, i + 1)

\* C12: for a call text NAME(args) that the grammar accepts, reconstruct_call
\* of the extracted call site gives the source text back, apart from blanks
\* next to the commas between arguments.
C12_RoundTrip ==
    IsOneCall => NoBlanksAtCommas(TheCallText, 1) = NoBlanksAtCommas(ex_text, 1)

\* What the reconstruction keeps: apart from blanks anywhere, it gives back
\* a source text that holds no quote and no number with a leading zero.
RECURSIVE NoBlanks(_)
NoBlanks(t) ==
    IF t = <<>> THEN <<>>
    ELSE (IF Head(t) \in Whitespace THEN <<>> ELSE <<Head(t)>>) \o NoBlanks(Tail(t))

RoundTripApartFromBlanks ==
    (IsOneCall /\ ex_tokens \in CallTexts /\ <<"0">> \notin Range(ex_tokens))
        => NoBlanks(TheCallText) = NoBlanks(ex_text)

\* the text is G(<one string literal>)
IsOneStringCall ==
    /\ IsOneCall
    /\ ex_tokens \in StringTexts
    /\ Len(TheCall.args) = 1
    /\ TheCall.args[1].t = "expr"
    /\ Len(TheCall.args[1].items) = 1
    /\ TheCall.args[1].items[1].t = "str"

\* the literal as written, between "G(" and ")"
SourceLiteral == SubSeq(ex_text, 3, Len(ex_text) - 1)

\* a content with every quote q written twice
RECURSIVE Doubled(_, _)
Doubled(content, q) ==
    IF content = <<>> THEN <<>>
    ELSE (IF Head(content) = q THEN <<q, q>> ELSE <<Head(content)>>)
             \o Doubled(Tail(content), q)

\* the content parse gave is the written content with each doubled delimiter
\* made one
ContentUndoubled ==
    IsOneStringCall =>
        LET q == SourceLiteral[1]
        IN <<q>> \o Doubled(TheCall.args[1].items[1].content, q) \o <<q>> = SourceLiteral

\* C13: parsing a string literal gives its content with every doubled
\* delimiter replaced by one, and reconstructing the argument gives the
\* source literal back: its own delimiter around the content, embedded
\* quotes of that kind doubled again.
C13_StringRoundTrip ==
    IsOneStringCall =>
        /\ ContentUndoubled
        /\ TheCallText = <<"G", "(">> \o SourceLiteral \o <<")">>

\* the arguments of a call site, serialised one by one
ArgTexts(c) == StringifyArgs(c.args)
IsEmptyArg(a) == a.t = "empty"

\* C14: reconstruct_call writes an empty argument as nothing and puts no
\* blank in front of it, writes ", " in front of every non-empty argument
\* after the first, gives NAME(,,) for three empty arguments and NAME() for
\* no argument.
C14_EmptyArguments ==
    pc = "extracted" =>
        \A k \in DOMAIN ex_calls :
            LET c == ex_calls[k]
                n == Len(c.args)
                piece == [i \in 1..n |->
                    IF IsEmptyArg(c.args[i])
                    THEN (IF i > 1 THEN <<",">> ELSE <<>>)
                    ELSE (IF i > 1 THEN <<",", " ">> ELSE <<>>) \o ArgTexts(c)[i]]
            IN /\ ex_recon[k] = c.name \o <<"(">> \o Flatten(piece) \o <<")">>
               /\ \A i \in 1..n : ~IsEmptyArg(c.args[i]) => ArgTexts(c)[i] # <<>>
               /\ n = 0 => ex_recon[k] = c.name \o <<"(", ")">>
               /\ (n = 3 /\ \A i \in 1..n : IsEmptyArg(c.args[i]))
                      => ex_recon[k] = c.name \o <<"(", ",", ",", ")">>

\* G(,,) is read as three empty arguments and written back as G(,,)
C14_Witness ==
    /\ pc = "extracted"
    /\ ex_text = <<"G", "(", ",", ",", ")">>
    /\ Len(TheCall.args) = 3
    /\ TheCallText = ex_text

\* G(, x): an empty argument followed by a non-empty one
C14_WitnessMixed ==
    /\ pc = "extracted"
    /\ ex_text = <<"G", "(", ",", "x", ")">>
    /\ TheCallText = <<"G", "(", ",", " ", "x", ")">>

\* The pieces of an operator text that carry meaning: the leading = signs
\* that parse removes and the blanks are left out.
RECURSIVE DropLeadingEq(_)
DropLeadingEq(pieces) ==
    IF pieces # <<>> /\ Head(pieces) = <<"=">> THEN DropLeadingEq(Tail(pieces)) ELSE pieces

Significant(pieces) == SelectSeq(DropLeadingEq(pieces), LAMBDA p : p # <<" ">>)

KeywordPiece == <<" ", "A", "N", "D", " ">>
SignPieces == {<<"+">>, <<"-">>}
BinaryOnlyPieces == {<<"*">>, <<"=">>, <<"<", ">">>, KeywordPiece}
AllOperatorPieces == SignPieces \cup BinaryOnlyPieces

\* signs, a term x, and then any number of: a binary operator, signs, x
RECURSIVE SignsThenTerm(_, _)
SignsThenTerm(sig, i) ==
    IF i > Len(sig) THEN FALSE
    ELSE IF sig[i] \in SignPieces THEN SignsThenTerm(sig, i + 1)
    ELSE /\ sig[i] = <<"x">>
         /\ \/ i = Len(sig)
            \/ /\ i + 1 < Len(sig)
               /\ sig[i + 1] \in AllOperatorPieces
               /\ SignsThenTerm(sig, i + 2)

WellPlaced(sig) == SignsThenTerm(sig, 1)

\* an operator other than + and - at the start of an expression or directly
\* after another operator, or an operator at the end
MisplacedAmong(sig, binaryOnly) ==
    \/ \E i \in DOMAIN sig :
           /\ sig[i] \in binaryOnly
           /\ i = 1 \/ sig[i - 1] \in AllOperatorPieces \cup {<<"(">>, <<",">>}
    \/ sig # <<>> /\ sig[Len(sig)] \in AllOperatorPieces \cap (binaryOnly \cup SignPieces)

IsOperatorText == pc # "parse" /\ ex_tokens \in OperatorTexts

\* C15: + and - are accepted in any number in front of a term, at the start
\* of an expression and directly after a binary operator; every expression
\* with another operator (* / ^ & = <> < > <= >= AND OR) at the start of an
\* expression or directly after an operator, and every expression that ends
\* in an operator, is rejected with a parse error.
C15_OperatorPlacement ==
    IsOperatorText =>
        /\ WellPlaced(Significant(ex_tokens)) => ex_parsed.ok
        /\ MisplacedAmong(Significant(ex_tokens), BinaryOnlyPieces) => ~ex_parsed.ok

\* The same holds of the texts without AND: the operators written as symbols
\* are rejected where the claim says. (AND and OR are also read as names:
\* 'x AND AND' is the term x, the operator AND and the name AND.)
PlacementOfSymbolOperators ==
    (IsOperatorText /\ KeywordPiece \notin Range(ex_tokens)) =>
        /\ WellPlaced(Significant(ex_tokens)) => ex_parsed.ok
        /\ MisplacedAmong(Significant(ex_tokens), BinaryOnlyPieces) => ~ex_parsed.ok

\* the text of an AST without blanks: each token as parse kept it, "(" ")"
\* around a parenthesized expression, NAME( , , ) around arguments
RECURSIVE Written(_), WrittenArgs(_, _)
Written(items) ==
    IF items = <<>> THEN <<>>
    ELSE LET item == Head(items)
         IN (CASE item.t = "tok" -> NoBlanks(item.s)
               [] item.t = "num" -> StrOfInt(item.v)
               [] item.t = "str" -> <<"\"">> \o item.content \o <<"\"">>
               [] item.t = "paren" -> <<"(">> \o Written(item.inner) \o <<")">>
               [] item.t = "call" ->
                      item.function \o <<"(">> \o WrittenArgs(item.args, 1) \o <<")">>)
            \o Written(Tail(items))

WrittenArgs(args, i) ==
    IF i > Len(args) THEN <<>>
    ELSE (IF i > 1 THEN <<",">> ELSE <<>>)
             \o (IF args[i].t = "empty" THEN <<>> ELSE Written(args[i].items))
             \o WrittenArgs(args, i + 1)

Normalized == Strip(LStripEq(ex_text))

\* a complete expression stands at the start of the input and text is left
\* over behind it
TextLeftOver ==
    LET Then(e) == e.ok /\ SkipWs(Normalized, e.pos) <= Len(Normalized)
    IN Then(Expression(Normalized, 1))

\* a text whose tokens are all kept as written in the AST: no quote, and no
\* number with a leading zero
KeptAsWritten == ex_tokens \notin StringTexts /\ <<"0">> \notin Range(ex_tokens)

\* C16: parse succeeds only when the grammar consumed the whole input left
\* after the leading = and the surrounding blanks are removed: the AST it
\* returns accounts for every character of that input, and an input with
\* text left over behind a complete expression raises a parse error.
C16_WholeInputConsumed ==
    pc # "parse" =>
        /\ TextLeftOver => ~ex_parsed.ok
        /\ (ex_parsed.ok /\ KeptAsWritten) => Written(ex_parsed.ast) = NoBlanks(Normalized)
        /\ ex_parsed.ok => Normalized # <<>>

\* 'x x': the expression x, and x left over
C16_Witness ==
    /\ pc = "parse_error"
    /\ ex_text = <<"x", " ", "x">>
    /\ TextLeftOver
    /\ ~ex_parsed.ok

\* '(x))'
C16_WitnessParen ==
    /\ pc = "parse_error"
    /\ ex_text = <<"(", "x", ")", ")">>
    /\ TextLeftOver

(***************************************************************************)
(* parse and extract_function_calls applied to one call G(...) whose       *)
(* argument list is written from commas and the constructs that can hold a *)
(* comma: the builtin call S(...), parentheses, a string literal, an array *)
(***************************************************************************)
CommaPieces ==
    {<<"x">>, <<",">>, <<")">>, <<"S", "(">>, <<"(", "S", "(">>, <<"\"">>,
     <<"{", "x">>, <<"}">>, <<" ">>}

CommaTexts == {CallOf(t) : t \in SeqsUpTo(CommaPieces, MaxTokens)}

InitArgs ==
    /\ pc = "parse"
    /\ LintIdle
    /\ SubstIdle
    /\ DfsIdle
    /\ BuildIdle
    /\ ex_tokens \in CommaTexts
    /\ ex_text = Flatten(ex_tokens)
    /\ ex_calls = <<>>
    /\ ex_parsed = NotParsed
    /\ ex_recon = <<>>

SpecArgs == InitArgs /\ [][NextExtract]_vars

\* the number of commas of an argument list that stand outside string
\* literals, parentheses (those of nested calls included) and array literals;
\* quote is the delimiter of the literal the scan is in, "" outside literals
RECURSIVE TopLevelCommas(_, _, _, _, _)
TopLevelCommas(t, i, depth, quote, inArray) ==
    IF i > Len(t) THEN 0
    ELSE IF quote # ""
    THEN TopLevelCommas(t, i + 1, depth, IF t[i] = quote THEN "" ELSE quote, inArray)
    ELSE IF inArray
    THEN TopLevelCommas(t, i + 1, depth, quote, t[i] # "}")
    ELSE IF t[i] \in Quotes THEN TopLevelCommas(t, i + 1, depth, t[i], inArray)
    ELSE IF t[i] = "{" THEN TopLevelCommas(t, i + 1, depth, quote, TRUE)
    ELSE IF t[i] = "(" THEN TopLevelCommas(t, i + 1, depth + 1, quote, inArray)
    ELSE IF t[i] = ")" THEN TopLevelCommas(t, i + 1, depth - 1, quote, inArray)
    ELSE (IF t[i] = "," /\ depth = 0 THEN 1 ELSE 0)
             + TopLevelCommas(t, i + 1, depth, quote, inArray)

\* the text is one call G(...) and nothing else; its argument list as written
IsCallOfG ==
    /\ pc = "extracted"
    /\ Len(ex_parsed.ast) = 1
    /\ ex_parsed.ast[1].t = "call"
    /\ ex_parsed.ast[1].function = <<"G">>

ArgumentList == SubSeq(ex_text, 3, Len(ex_text) - 1)
ArgumentsOfG == ex_parsed.ast[1].args

\* C25: a parsed call has as many arguments as its argument list has
\* top-level commas, plus one, and none when the list is empty (NAME());
\* commas inside string literals, nested calls, parentheses and array
\* literals do not split arguments; a position directly followed by "," or
\* ")" is kept as an empty argument: G(,) has 2 arguments, G(x,,x) has 3.
C25_ArgumentCount ==
    /\ IsCallOfG =>
           Len(ArgumentsOfG) =
               IF Strip(ArgumentList) = <<>> THEN 0
               ELSE TopLevelCommas(ArgumentList, 1, 0, "", FALSE) + 1
    /\ (pc # "parse" /\ ex_text = <<"G", "(", ",", ")">>) =>
           /\ IsCallOfG
           /\ [k \in 1..2 |-> ArgumentsOfG[k].t] = <<"empty", "empty">>
    /\ (pc # "parse" /\ ex_text = <<"G", "(", "x", ",", ",", "x", ")">>) =>
           /\ IsCallOfG
           /\ [k \in 1..3 |-> ArgumentsOfG[k].t] = <<"expr", "empty", "expr">>
    /\ (pc # "parse" /\ ex_text = <<"G", "(", ")">>) => (IsCallOfG /\ ArgumentsOfG = <<>>)

\* G(",",): the comma in the literal does not split, the other one does
C25_Witness ==
    /\ IsCallOfG
    /\ ex_text = <<"G", "(", "\"", ",", "\"", ",", ")">>
    /\ Len(ArgumentsOfG) = 2

\* G(S(,),), G((S(,))), G({x,},)
C25_WitnessNested ==
    /\ IsCallOfG
    /\ ex_text = <<"G", "(", "S", "(", ",", ")", ",", ")">>
    /\ Len(ArgumentsOfG) = 2

C25_WitnessParenthesized ==
    /\ IsCallOfG
    /\ ex_text = <<"G", "(", "(", "S", "(", ",", ")", ")", ")">>
    /\ Len(ArgumentsOfG) = 1

C25_WitnessArray ==
    /\ IsCallOfG
    /\ ex_text = <<"G", "(", "{", "x", ",", "}", ",", ")">>
    /\ Len(ArgumentsOfG) = 2

(***************************************************************************)
(* lint_formulas.py: NoTopLevelLambdaRule.check                            *)
(***************************************************************************)
\* str.upper()
UpperText(s) == [i \in DOMAIN s |-> Upper(s[i])]

\* the loop over enumerate(stripped), from character i on: the position of
\* the ")" that brings paren_count back to 0, or 0 when the loop ends without
\* one (lambda_end = -1)
RECURSIVE LambdaEnd(_, _, _, _, _)
LambdaEnd(stripped, i, paren_count, in_string, escape_next) ==
    IF i > Len(stripped) THEN 0
    ELSE IF escape_next THEN LambdaEnd(stripped, i + 1, paren_count, in_string, FALSE)
    ELSE IF stripped[i] = "\\"
    THEN LambdaEnd(stripped, i + 1, paren_count, in_string, TRUE)
    ELSE IF stripped[i] = "\""
    THEN LambdaEnd(stripped, i + 1, paren_count, ~in_string, FALSE)
    ELSE IF ~in_string /\ stripped[i] = "("
    THEN LambdaEnd(stripped, i + 1, paren_count + 1, in_string, FALSE)
    ELSE IF ~in_string /\ stripped[i] = ")"
    THEN (IF paren_count - 1 = 0 THEN i
          ELSE LambdaEnd(stripped, i + 1, paren_count - 1, in_string, FALSE))
    ELSE LambdaEnd(stripped, i + 1, paren_count, in_string, FALSE)

SelfExecutingWarning == [errors |-> <<>>, warnings |-> <<"self-executing">>]
UninvokedError == [errors |-> <<"uninvoked">>, warnings |-> <<>>]

\* NoTopLevelLambdaRule.check: the messages as (errors, warnings)
CheckNoTopLevelLambda(data) ==
    IF data.kind # "text" THEN NoMessages
    ELSE LET stripped == Strip(data.formula)
             lambda_end == LambdaEnd(stripped, 1, 0, FALSE, FALSE)
             after_lambda == LStrip(SubSeq(stripped, lambda_end + 1, Len(stripped)))
         IN IF ~StartsWith(UpperText(stripped), <<"L", "A", "M", "B", "D", "A", "(">>)
            THEN NoMessages
            ELSE IF /\ lambda_end > 0
                    /\ lambda_end < Len(stripped)
                    /\ StartsWith(after_lambda, <<"(">>)
            THEN SelfExecutingWarning
            ELSE UninvokedError

\* errors, warnings = rule.check(file_path, data)
LintCheck ==
    /\ pc = "lint"
    /\ lint_result' = CheckNoTopLevelLambda(lint_data)
    /\ pc' = "linted"
    /\ UNCHANGED <<lint_data, substVars, dfsVars, buildVars, extractVars>>

(***************************************************************************)
(* The rule applied to a record without a formula, to one whose formula is *)
(* no string, and to the formulas written as a start followed by at most   *)
(* MaxLint of the characters that the scan tells apart                     *)
(***************************************************************************)
MaxLint == 5
LintStarts ==
    {<<"L", "A", "M", "B", "D", "A", "(">>, <<"l", "a", "m", "b", "d", "a", "(">>,
     <<" ", "L", "A", "M", "B", "D", "A", "(">>, <<"x">>}
LintChars == {"(", ")", "\"", "'", "\\", " "}
LintTexts == {start \o rest : start \in LintStarts, rest \in SeqsUpTo(LintChars, MaxLint)}

InitLint ==
    /\ pc = "lint"
    /\ SubstIdle
    /\ DfsIdle
    /\ BuildIdle
    /\ ExtractIdle
    /\ lint_data \in {NoLintData, [kind |-> "number", formula |-> <<>>]}
                      \cup {[kind |-> "text", formula |-> t] : t \in LintTexts}
    /\ lint_result = NoMessages

NextLint == LintCheck

SpecLint == InitLint /\ [][NextLint]_vars

\* the position of the ")" that closes the first "(" of text, counted
\* outside string literals: a literal runs from a " or a ' to the next
\* quote of its kind, a doubled one standing for the quote itself; 0 when
\* the text has no such ")"
RECURSIVE ClosingParen(_, _, _, _)
ClosingParen(text, i, depth, quote) ==
    IF i > Len(text) THEN 0
    ELSE IF quote # ""
    THEN ClosingParen(text, i + 1, depth, IF text[i] = quote THEN "" ELSE quote)
    ELSE IF text[i] \in Quotes THEN ClosingParen(text, i + 1, depth, text[i])
    ELSE IF text[i] = "(" THEN ClosingParen(text, i + 1, depth + 1, quote)
    ELSE IF text[i] = ")"
    THEN (IF depth = 1 THEN i ELSE ClosingParen(text, i + 1, depth - 1, quote))
    ELSE ClosingParen(text, i + 1, depth, quote)

LintedText == Strip(lint_data.formula)

StartsWithLambda ==
    /\ lint_data.kind = "text"
    /\ Len(LintedText) >= 7
    /\ UpperText(SubSeq(LintedText, 1, 7)) = <<"L", "A", "M", "B", "D", "A", "(">>

\* the ")" that closes LAMBDA( is followed, after blanks, by "("
LambdaIsInvoked ==
    LET close == ClosingParen(LintedText, 1, 0, "")
    IN /\ close # 0
       /\ LStrip(SubSeq(LintedText, close + 1, Len(LintedText))) # <<>>
       /\ Head(LStrip(SubSeq(LintedText, close + 1, Len(LintedText)))) = "("

\* C27: NoTopLevelLambdaRule.check returns exactly one message for a formula
\* whose trimmed text starts with LAMBDA( in any case, and none for any
\* other: one warning and no error when the parenthesis that closes LAMBDA(
\* is followed, after optional blanks, by "(", otherwise one error and no
\* warning; the closing parenthesis is the one found by counting parentheses
\* outside string literals.
C27_OneMessageForLambda ==
    pc = "linted" =>
        lint_result = IF ~StartsWithLambda THEN NoMessages
                      ELSE IF LambdaIsInvoked THEN SelfExecutingWarning
                      ELSE UninvokedError

\* The same for the formulas that hold no single quote and no backslash:
\* the scan of the rule takes " alone as the delimiter of a literal, and a
\* backslash as hiding the character after it.
OneMessageWithDoubleQuotesOnly ==
    (pc = "linted" /\ "'" \notin Range(lint_data.formula)
        /\ "\\" \notin Range(lint_data.formula)) =>
        lint_result = IF ~StartsWithLambda THEN NoMessages
                      ELSE IF LambdaIsInvoked THEN SelfExecutingWarning
                      ELSE UninvokedError

====
